---- MODULE Spec2Model ----
(***************************************************************************)
(* A state-machine model of the ingestion scripts of StegVerse-Labs/Site:  *)
(* source selection, fallback, normalisation, merge into the prior         *)
(* document and persistence.  The web is a function from source URL to the *)
(* page the URL serves, sampled when a URL is first fetched and fixed for  *)
(* the rest of the behaviour, so that consecutive runs see byte-identical  *)
(* payloads.  A JSON document is an insertion-ordered dictionary; a file   *)
(* is the serialised document together with the number of chunks of the    *)
(* text that have reached the disk.                                        *)
(***************************************************************************)
EXTENDS Integers, Sequences, FiniteSets, TLC

VARIABLES
    script,      \* the script this behaviour runs (chosen by Init)
    config,      \* the configuration file the script reads (chosen by Init)
    pc,          \* position inside the script's main()
    runs,        \* number of completed runs of main()
    exitCode,    \* return code of the last completed main()
    unhandled,   \* the exception that left main() unhandled, or "none"
    disk,        \* path -> file
    web,         \* url -> page, for the urls fetched so far
    now,         \* the clock, in units of the timestamp resolution
    queue,       \* main(): the datasets / sports in processing order
    di,          \* main(): index into queue
    ok_all,      \* main(): ok_all / overall_ok
    candidates,  \* dataset run: the sources in attempt order
    si,          \* dataset run: index into candidates
    data,        \* dataset run: [some, val], the handler's result or None
    did_error,   \* run_dataset: did_error
    working,     \* the in-memory document of a script that mutates one
    attempts,    \* history: the attempts of this run, [ds, src, page]
    outcome,     \* history: dataset id -> how its run ended in this run
    disk0,       \* history: the disk when this run of main() started
    cpc,         \* commit: position inside the save routine
    routine,     \* commit: the save routine being executed
    cnew,        \* commit: the document being committed
    cprior,      \* commit: the canonical file when the commit started
    observed,    \* commit: what a concurrent reader last read, [seen, file]
    last_error,  \* dataset run: last_error, the id of the source that failed last
    written,     \* history: the paths this run of main() has written, in order
    dry_run,     \* main(): defaults.dry_run of the configuration
    request,     \* source selection: the call last made, [fn, kind, has_season, season]
    selected     \* source selection: what that call returned

pipeVars == <<script, config, pc, runs, exitCode, unhandled, web, now, queue, di,
              ok_all, candidates, si, data, did_error, working, attempts,
              outcome, disk0>>
commitVars == <<cpc, routine, cnew, cprior, observed>>
selVars == <<request, selected>>
logVars == <<last_error, written>>
cfgVars == <<dry_run>>
vars == <<script, config, pc, runs, exitCode, unhandled, disk, web, now, queue, di,
          ok_all, candidates, si, data, did_error, working, attempts,
          outcome, disk0, cpc, routine, cnew, cprior, observed, request,
          selected, last_error, written, dry_run>>

(***************************************************************************)
(* Bounds of the model.                                                    *)
(***************************************************************************)
MaxRuns == 2
MaxClock == 2
Chunks == 2
MaxSrc == 3

(***************************************************************************)
(* Stable sort, as Python's sorted(): an element's place is the number of  *)
(* elements with a smaller key, or with an equal key and a smaller index.  *)
(* The argument is a sequence of [k, v]; the result is the sequence of v.  *)
(***************************************************************************)
Place_mut(s, i) ==
    1 + Cardinality({j \in 1..Len(s) :
            s[j].k < s[i].k \/ (s[j].k = s[i].k /\ j > i)})

Place(s, i) ==
    1 + Cardinality({j \in 1..Len(s) :
            s[j].k < s[i].k \/ (s[j].k = s[i].k /\ j < i)})

SortedByKey(s) ==
    [p \in 1..Len(s) |-> s[CHOOSE i \in 1..Len(s) : Place(s, i) = p].v]

Range(s) == {s[i] : i \in 1..Len(s)}

(***************************************************************************)
(* JSON documents: Python dicts keep insertion order, and json.dump with   *)
(* sort_keys=False writes the keys in that order.                          *)
(***************************************************************************)
EmptyDict == [keys |-> <<>>, val |-> [k \in {} |-> 0]]

Has(d, k) == k \in Range(d.keys)

Get(d, k, dflt) == IF Has(d, k) THEN d.val[k] ELSE dflt

Put(d, k, v) ==
    [keys |-> IF Has(d, k) THEN d.keys ELSE Append(d.keys, k),
     val  |-> [x \in (DOMAIN d.val) \cup {k} |-> IF x = k THEN v ELSE d.val[x]]]

(***************************************************************************)
(* Files.  written counts the chunks of the serialised text that are on    *)
(* disk: a file parses as JSON only when all Chunks of it are there.       *)
(***************************************************************************)
AbsentFile == [exists |-> FALSE, doc |-> EmptyDict, written |-> 0]
EmptyFile == [exists |-> TRUE, doc |-> EmptyDict, written |-> 0]
FullFile(d) == [exists |-> TRUE, doc |-> d, written |-> Chunks]
PartialFile(d, n) == IF n = 0 THEN EmptyFile
                     ELSE [exists |-> TRUE, doc |-> d, written |-> n]
Complete(f) == f.exists /\ f.written = Chunks

CfpData == "data/cfp-data.json"
NbaData == "data/nba-data.json"
TmpOf(p) == IF p = CfpData THEN "data/cfp-data.json.tmp" ELSE "data/nba-data.json.tmp"
TmpJsonOf(p) == IF p = CfpData THEN "data/cfp-data.tmp.json" ELSE "data/nba-data.tmp.json"
SportsData == "data/cfp/cfp-data.json"
TeamsData == "data/cfp-teams.json"
SyncMeta == "data/cfp-sync-meta.json"
IndexHtml == "index.html"
Paths == {CfpData, NbaData, TmpOf(CfpData), TmpOf(NbaData),
          TmpJsonOf(CfpData), TmpJsonOf(NbaData), SportsData, TeamsData, SyncMeta,
          IndexHtml}

OpenW(fs, p) == [fs EXCEPT ![p] = EmptyFile]
WriteChunk(fs, p, d) == [fs EXCEPT ![p] = PartialFile(d, fs[p].written + 1)]
WriteAll(fs, p, d) == [fs EXCEPT ![p] = FullFile(d)]
Rename(fs, from, to) == [fs EXCEPT ![to] = fs[from], ![from] = AbsentFile]

(***************************************************************************)
(* The whole save routines, as the sequence of their file operations.      *)
(***************************************************************************)
save_json_file(fs, p, d) ==
    Rename(WriteAll(OpenW(fs, TmpOf(p)), TmpOf(p), d), TmpOf(p), p)

write_json_relpath(fs, p, d) == WriteAll(OpenW(fs, p), p, d)

_save_data(fs, p, d) ==
    Rename(WriteAll(OpenW(fs, TmpOf(p)), TmpOf(p), d), TmpOf(p), p)

(* json.load inside try/except: absent or unparsable content gives {}. *)
load_json_file(f) == IF Complete(f) THEN f.doc ELSE EmptyDict

_load_existing_data(f) == IF Complete(f) THEN f.doc ELSE EmptyDict

(***************************************************************************)
(* Pages.  A page is what a URL serves: the HTTP status, the headers of    *)
(* its first ranking-like table ("none" when the page has no such table),  *)
(* the table's rows and the page's standings sections.  A row keeps the    *)
(* number of its <td> cells, the kind of text in its first cell ("digits", *)
(* "signed" for a sign followed by digits, "text"), the number the first   *)
(* cell denotes, and the team cell.                                        *)
(***************************************************************************)
Row(kind, seed, team) == [ncells |-> 4, c0 |-> kind, seed |-> seed, team |-> team]
HeaderRow == [ncells |-> 0, c0 |-> "text", seed |-> 0, team |-> ""]

PageErr == [status |-> 500, table |-> "none", rows |-> <<>>, sections |-> <<>>]
PageJunk == [status |-> 200, table |-> "none", rows |-> <<>>, sections |-> <<>>]
PageEmpty == [status |-> 200, table |-> "rank_team", rows |-> <<HeaderRow>>,
              sections |-> <<[name |-> "sec", crude |-> TRUE, teams |-> <<>>]>>]
PageA == [status |-> 200, table |-> "rank_team",
          rows |-> <<HeaderRow, Row("digits", 1, "Ohio State"), Row("digits", 2, "Georgia")>>,
          sections |-> <<[name |-> "sec", crude |-> TRUE, teams |-> <<"Georgia">>]>>]
PageB == [status |-> 200, table |-> "rank_school",
          rows |-> <<Row("digits", 2, "Texas"), Row("digits", 1, "Oregon")>>,
          sections |-> <<[name |-> "big12", crude |-> TRUE, teams |-> <<"Texas">>]>>]
Pages == {PageErr, PageJunk, PageEmpty, PageA, PageB}

NoWeb == [u \in {} |-> PageErr]

(* The webs that agree with w and also serve, from P, the urls of U. *)
SampleFrom(w, U, P) ==
    {[u \in (DOMAIN w) \cup U |-> IF u \in DOMAIN w THEN w[u] ELSE x[u]] :
        x \in [U \ (DOMAIN w) -> P]}

(* The webs that agree with w and also serve the urls of U. *)
Sample(w, U) ==
    {[u \in (DOMAIN w) \cup U |-> IF u \in DOMAIN w THEN w[u] ELSE x[u]] :
        x \in [U \ (DOMAIN w) -> Pages]}

(* requests.get(url, timeout=20); resp.raise_for_status() *)
FetchOk(page) == page.status = 200

Raised == [raised |-> TRUE, value |-> <<>>]
Returned(v) == [raised |-> FALSE, value |-> v]

IsDigit(r) == r.c0 = "digits"
IntParses(r) == r.c0 \in {"digits", "signed"}

(***************************************************************************)
(* universal_ingest: the handlers.                                         *)
(***************************************************************************)
UniversalRanking(r) ==
    [seed |-> r.seed, team |-> IF r.ncells > 1 THEN r.team ELSE "",
     record |-> "", conference |-> "", status |-> "in_play",
     lock_reason |-> "", spot_scenarios |-> <<>>]

UniversalRowOk(r) == r.ncells > 0 /\ IsDigit(r)

handle_cfp_rankings_html(page) ==
    IF ~FetchOk(page) THEN Raised
    ELSE IF page.table \notin {"rank_team", "rank_school"} THEN Returned(<<>>)
    ELSE LET rows == SelectSeq(page.rows, UniversalRowOk)
         IN  Returned([i \in 1..Len(rows) |-> UniversalRanking(rows[i])])

SectionOk(s) == s.crude /\ s.teams # <<>>

handle_ncaaf_standings_html(page) ==
    IF ~FetchOk(page) THEN Raised
    ELSE LET secs == SelectSeq(page.sections, SectionOk)
         IN  Returned([i \in 1..Len(secs) |->
                 [id |-> secs[i].name, name |-> secs[i].name, teams |-> secs[i].teams]])

PollName(sid) ==
    IF sid \in {"ap_top25"} THEN "AP Top 25"
    ELSE IF sid \in {"coaches_poll"} THEN "Coaches Poll"
    ELSE IF sid \in {"cfp_official", "cfp_backup"} THEN "CFP Rankings"
    ELSE "Poll"

PollTeams(page) ==
    IF page.table \notin {"rank_team", "rank_school"} THEN <<>>
    ELSE LET rows == SelectSeq(page.rows, UniversalRowOk)
         IN  SortedByKey([i \in 1..Len(rows) |->
                 [k |-> rows[i].seed,
                  v |-> [rank |-> rows[i].seed,
                         team |-> IF rows[i].ncells > 1 THEN rows[i].team ELSE "",
                         record |-> "", conference |-> ""]]])

(* srcs: the source ids, w: the web.  The first failing fetch raises. *)
handle_ncaaf_polls_html(srcs, w) ==
    IF \E i \in 1..Len(srcs) : ~FetchOk(w[srcs[i]]) THEN Raised
    ELSE Returned([i \in 1..Len(srcs) |->
             [name |-> PollName(srcs[i]), source_id |-> srcs[i],
              teams |-> PollTeams(w[srcs[i]])]])

handle_ncaaf_games_html(page) ==
    IF ~FetchOk(page) THEN Raised ELSE Returned(<<>>)

HandlerKinds == {"cfp_rankings_html", "ncaaf_standings_html",
                 "ncaaf_polls_html", "ncaaf_games_html"}

(* HANDLERS.get(kind) applied to one source. *)
Handle(kind, page) ==
    CASE kind = "cfp_rankings_html" -> handle_cfp_rankings_html(page)
      [] kind = "ncaaf_standings_html" -> handle_ncaaf_standings_html(page)
      [] kind = "ncaaf_games_html" -> handle_ncaaf_games_html(page)
      [] OTHER -> Raised

NoneData == [some |-> FALSE, val |-> <<>>]
SomeData(v) == [some |-> TRUE, val |-> v]

(***************************************************************************)
(* The prior document some behaviours start from.                          *)
(***************************************************************************)
OldRanking == [seed |-> 1, team |-> "Alabama", record |-> "11-1", conference |-> "SEC",
               status |-> "locked", lock_reason |-> "champion", spot_scenarios |-> <<>>]

OldDoc ==
    [keys |-> <<"last_updated", "sources", "cfp_source_id", "conf_source_id",
                "rankings", "games", "polls", "conferences", "note">>,
     val  |-> [last_updated |-> 0,
               sources |-> <<[id |-> "9", label |-> "Manual", url |-> "manual"]>>,
               cfp_source_id |-> "9",
               conf_source_id |-> "9",
               rankings |-> <<OldRanking>>,
               games |-> <<[id |-> "ttu-byu"]>>,
               polls |-> <<[name |-> "AP Top 25", source_id |-> "9", teams |-> <<>>]>>,
               conferences |-> <<[id |-> "acc", name |-> "acc", teams |-> <<"Clemson">>]>>,
               note |-> "custom"]]

InitialFiles == {AbsentFile, PartialFile(OldDoc, 1), FullFile(OldDoc)}

(***************************************************************************)
(* History kept for the properties: how each dataset's run ended.          *)
(***************************************************************************)
DsIds == {"rankings", "polls", "conferences", "games", "ncaaf", "nba", "nfl",
          "cfp_rankings"}

NoOutcome == [state |-> "none", winner |-> "none", order |-> <<>>]
NoOutcomes == [d \in DsIds |-> NoOutcome]
Ended(state, winner, order) == [state |-> state, winner |-> winner, order |-> order]

Attempt(ds, src, page) == [ds |-> ds, src |-> src, page |-> page]

(***************************************************************************)
(* universal_ingest.py: the configuration (ingest/ingest_config.yml).      *)
(***************************************************************************)
UDatasets ==
    << [id |-> "conferences", enabled |-> TRUE, kind |-> "ncaaf_standings_html",
        priority |-> 1, path |-> CfpData, field |-> "conferences",
        primary_sources |-> <<"espn_standings">>, backup_sources |-> <<>>],
       [id |-> "rankings", enabled |-> TRUE, kind |-> "cfp_rankings_html",
        priority |-> 5, path |-> CfpData, field |-> "rankings",
        primary_sources |-> <<"cfp_official">>, backup_sources |-> <<"cfp_backup">>],
       [id |-> "polls", enabled |-> TRUE, kind |-> "ncaaf_polls_html",
        priority |-> 3, path |-> CfpData, field |-> "polls",
        primary_sources |-> <<"ap_top25">>, backup_sources |-> <<>>] >>

(* The same file with one more dataset: an enabled one whose kind HANDLERS
   does not know, an enabled one without sources, a disabled one whose kind
   HANDLERS does not know. *)
UGames(enabled, kind, prim) ==
    [id |-> "games", enabled |-> enabled, kind |-> kind, priority |-> 4,
     path |-> CfpData, field |-> "games",
     primary_sources |-> prim, backup_sources |-> <<>>]

(* The same file with a backup source for the polls dataset. *)
UPollsBackup == [UDatasets EXCEPT ![3].backup_sources = <<"ap_backup">>]

(* The same file with the priorities the other way round: conferences is
   processed first and rankings last. *)
UReordered == [UDatasets EXCEPT ![1].priority = 9, ![2].priority = 1]

UConfigs ==
    {UDatasets, UPollsBackup, UReordered,
     Append(UDatasets, UGames(TRUE, "ncaaf_games_json", <<"espn_scores">>)),
     Append(UDatasets, UGames(TRUE, "ncaaf_games_html", <<>>)),
     Append(UDatasets, UGames(FALSE, "ncaaf_games_json", <<"espn_scores">>))}

DryRunReturns_mut(dr) == FALSE

(* run_dataset, line 357: "if dry_run:". *)
DryRunReturns(dr) == dr

(* main(): sorted(datasets, key=priority, reverse=True); reverse keeps ties
   in their original order. *)
SortDatasets(dss) == SortedByKey([i \in 1..Len(dss) |-> [k |-> 0 - dss[i].priority, v |-> dss[i]]])

choose_sources(ds) == [prim |-> ds.primary_sources, backup |-> ds.backup_sources]

(* run_dataset, line 320: sources_to_try = prim + backup. *)
sources_to_try(ds) == choose_sources(ds).prim \o choose_sources(ds).backup

multi_source(kind) == kind \in {"ncaaf_polls_html"}

LoopBreaks_mut(d) == FALSE

(* run_dataset, line 343: "if data is not None: break". *)
LoopBreaks(d) == d.some

DataIsNone_mut(d) == FALSE

(* run_dataset, line 350: "if data is None". *)
DataIsNone(d) == ~d.some

(* A run of main() starts: the bookkeeping common to every script. *)
StartRun(q) ==
    /\ pc = "idle"
    /\ runs < MaxRuns
    /\ unhandled = "none"
    /\ queue' = q
    /\ di' = 1
    /\ ok_all' = TRUE
    /\ attempts' = <<>>
    /\ outcome' = NoOutcomes
    /\ disk0' = disk
    /\ candidates' = <<>>
    /\ si' = 1
    /\ data' = NoneData
    /\ did_error' = FALSE
    /\ last_error' = ""
    /\ pc' = "main_loop"
    /\ UNCHANGED <<script, config, runs, exitCode, unhandled, disk, web, now, working>>
    /\ UNCHANGED commitVars
    /\ UNCHANGED selVars
    /\ UNCHANGED cfgVars
    /\ UNCHANGED written

NextDataset_mut(ok) ==
    /\ ok_all' = (ok_all /\ ok)
    /\ di' = IF ok THEN di + 1 ELSE Len(queue) + 1
    /\ pc' = "main_loop"

(* The dataset run at queue[di] returned ok: back in main()'s loop. *)
NextDataset(ok) ==
    /\ ok_all' = (ok_all /\ ok)
    /\ di' = di + 1
    /\ pc' = "main_loop"

UMainStart ==
    /\ script = "universal_ingest"
    /\ StartRun(SortDatasets(config))

(* run_dataset, lines 302-330: the checks before the first attempt. *)
URunDatasetBegin ==
    /\ script = "universal_ingest"
    /\ pc = "main_loop"
    /\ di <= Len(queue)
    /\ LET ds == queue[di] IN
       IF ~ds.enabled THEN
           /\ outcome' = [outcome EXCEPT ![ds.id] = Ended("SKIPPED", "none", <<>>)]
           /\ ok_all' = ok_all
           /\ di' = di + 1
           /\ UNCHANGED <<pc, candidates, si, data, did_error, last_error>>
       ELSE IF ds.kind \notin HandlerKinds \/ sources_to_try(ds) = <<>> THEN
           /\ outcome' = [outcome EXCEPT ![ds.id] = Ended("CONFIG_ERROR", "none", <<>>)]
           /\ ok_all' = FALSE
           /\ di' = di + 1
           /\ UNCHANGED <<pc, candidates, si, data, did_error, last_error>>
       ELSE
           /\ candidates' = sources_to_try(ds)
           /\ si' = 1
           /\ data' = NoneData
           /\ did_error' = FALSE
           /\ last_error' = ""
           /\ pc' = IF multi_source(ds.kind) THEN "ds_multi" ELSE "ds_loop"
           /\ UNCHANGED <<outcome, ok_all, di>>
    /\ UNCHANGED <<script, config, runs, exitCode, unhandled, disk, web, now, queue,
                   working, attempts, disk0>>
    /\ UNCHANGED commitVars
    /\ UNCHANGED selVars
    /\ UNCHANGED cfgVars
    /\ UNCHANGED written

(* run_dataset, lines 332-338: the handler gets all primary sources. *)
URunMulti ==
    /\ script = "universal_ingest"
    /\ pc = "ds_multi"
    /\ LET ds == queue[di]
           prim == choose_sources(ds).prim
       IN  \E w \in Sample(web, Range(prim)) :
             LET r == handle_ncaaf_polls_html(prim, w)
                 upto == IF r.raised
                         THEN CHOOSE i \in 1..Len(prim) :
                                /\ ~FetchOk(w[prim[i]])
                                /\ \A j \in 1..(i - 1) : FetchOk(w[prim[j]])
                         ELSE Len(prim)
             IN  /\ web' = w
                 /\ attempts' = attempts \o
                       [i \in 1..upto |-> Attempt(ds.id, prim[i], w[prim[i]])]
                 /\ data' = IF r.raised THEN NoneData ELSE SomeData(r.value)
                 /\ did_error' = r.raised
                 /\ last_error' = IF r.raised THEN prim[upto] ELSE last_error
                 /\ pc' = "ds_finish"
    /\ UNCHANGED <<script, config, runs, exitCode, unhandled, disk, now, queue, di,
                   ok_all, candidates, si, working, outcome, disk0>>
    /\ UNCHANGED commitVars
    /\ UNCHANGED selVars
    /\ UNCHANGED cfgVars
    /\ UNCHANGED written

(* run_dataset, lines 340-348: one iteration of "for src in sources_to_try". *)
UTrySource ==
    /\ script = "universal_ingest"
    /\ pc = "ds_loop"
    /\ si <= Len(candidates)
    /\ LET ds == queue[di]
           src == candidates[si]
       IN  \E w \in Sample(web, {src}) :
             LET r == Handle(ds.kind, w[src])
                 d == IF r.raised THEN data ELSE SomeData(r.value)
                 leave == (~r.raised /\ LoopBreaks(d)) \/ si = Len(candidates)
             IN  /\ web' = w
                 /\ attempts' = Append(attempts, Attempt(ds.id, src, w[src]))
                 /\ data' = d
                 /\ last_error' = IF r.raised THEN src ELSE last_error
                 /\ si' = IF leave THEN si ELSE si + 1
                 /\ pc' = IF leave THEN "ds_finish" ELSE "ds_loop"
    /\ UNCHANGED <<script, config, runs, exitCode, unhandled, disk, now, queue, di,
                   ok_all, candidates, did_error, working, outcome, disk0>>
    /\ UNCHANGED commitVars
    /\ UNCHANGED selVars
    /\ UNCHANGED cfgVars
    /\ UNCHANGED written

UMerged_mut(f, field, val, t, path) ==
    Put(Put(EmptyDict, field, val), "last_updated", t)

(* run_dataset, lines 361-368: load, set the field, stamp, save. *)
UMerged(f, field, val, t, path) ==
    LET doc == Put(load_json_file(f), field, val)
    IN  IF Has(doc, "last_updated") \/ path = CfpData
        THEN Put(doc, "last_updated", t) ELSE doc

(* run_dataset, lines 350-372, and main()'s "ok_all = ok_all and ok". *)
URunDatasetEnd ==
    /\ script = "universal_ingest"
    /\ pc = "ds_finish"
    /\ LET ds == queue[di] IN
       IF DataIsNone(data) THEN
           /\ outcome' = [outcome EXCEPT ![ds.id] = Ended("EXHAUSTED", "none", candidates)]
           /\ disk' = disk
           /\ NextDataset(FALSE)
       ELSE IF DryRunReturns(dry_run) THEN
           /\ outcome' = [outcome EXCEPT ![ds.id] = Ended("DRY_RUN", "none", candidates)]
           /\ disk' = disk
           /\ NextDataset(~did_error)
       ELSE
           /\ outcome' = [outcome EXCEPT ![ds.id] =
                 Ended("SUCCEEDED",
                       IF multi_source(ds.kind) THEN "all" ELSE candidates[si],
                       candidates)]
           /\ disk' = save_json_file(disk, ds.path,
                          UMerged(disk[ds.path], ds.field, data.val, now, ds.path))
           /\ NextDataset(~did_error)
    /\ UNCHANGED <<script, config, runs, exitCode, unhandled, web, now, queue,
                   candidates, si, data, did_error, working, attempts, disk0>>
    /\ UNCHANGED commitVars
    /\ UNCHANGED selVars
    /\ UNCHANGED cfgVars
    /\ UNCHANGED logVars

ExitCode_mut(ok) == 0

(* main(), lines 396-401: return 0 if ok_all else 1. *)
ExitCode(ok) == IF ok THEN 0 ELSE 1

(* main(): the loop is over; lines 396-401. *)
MainReturns(code) ==
    /\ pc = "main_loop"
    /\ di > Len(queue)
    /\ exitCode' = code
    /\ runs' = runs + 1
    /\ pc' = "idle"
    /\ UNCHANGED <<script, config, unhandled, disk, web, now, queue, di, ok_all,
                   candidates, si, data, did_error, working, attempts,
                   outcome, disk0>>
    /\ UNCHANGED commitVars
    /\ UNCHANGED selVars
    /\ UNCHANGED cfgVars
    /\ UNCHANGED logVars

UMainEnd ==
    /\ script = "universal_ingest"
    /\ MainReturns(ExitCode(ok_all))

(***************************************************************************)
(* ingestion/ingest_runner.py and ingestion/sources.                       *)
(***************************************************************************)
DefaultPriority == 999

RSource(id, type, has_priority, priority) ==
    [id |-> id, type |-> type, enabled |-> TRUE,
     has_priority |-> has_priority, priority |-> priority, rankings_url |-> id]

(* ingestion/universal_config.json: "sports", in the order of the file. *)
RSports ==
    << [key |-> "ncaaf", enabled |-> TRUE, output_file |-> CfpData,
        sources |-> << RSource("C", "cfp_collegefootballplayoff", TRUE, 3),
                       RSource("A", "cfp_collegefootballplayoff", TRUE, 1),
                       RSource("B", "cfp_collegefootballplayoff", TRUE, 2) >>],
       [key |-> "nba", enabled |-> TRUE, output_file |-> NbaData,
        sources |-> << RSource("N", "cfp_collegefootballplayoff", FALSE, 0) >>] >>

(* The same file with a sport that has no sources, or with a source of sport
   ncaaf whose type fetch_from_source does not know. *)
RNbaDisabled == [RSports EXCEPT ![2].enabled = FALSE]

RConfigs ==
    {RSports, RNbaDisabled,
     Append(RSports, [key |-> "nfl", enabled |-> TRUE, output_file |-> "data/nfl-data.json",
                      sources |-> <<>>]),
     << [key |-> "ncaaf", enabled |-> TRUE, output_file |-> CfpData,
         sources |-> << RSource("C", "cfp_collegefootballplayoff", TRUE, 3),
                        RSource("A", "espn_api", TRUE, 1),
                        RSource("B", "cfp_collegefootballplayoff", TRUE, 2) >>],
        RSports[2] >>}

SourceTypes == {"cfp_collegefootballplayoff"}

(* What an attempt that raised before any request was sent has in place of a
   page. *)
NotFetched == [status |-> 0, table |-> "none", rows |-> <<>>, sections |-> <<>>]

SourceEnabled(s) == s.enabled

(* run_for_sport, lines 55-58. *)
SortSources(srcs) ==
    LET en == SelectSeq(srcs, SourceEnabled)
    IN  SortedByKey([i \in 1..Len(en) |->
            [k |-> IF en[i].has_priority THEN en[i].priority ELSE DefaultPriority,
             v |-> en[i]]])

RunnerRowOk(r) == r.ncells >= 2 /\ IntParses(r)

RunnerRanking(r) ==
    [seed |-> r.seed, team |-> r.team, record |-> "", conference |-> "",
     status |-> "in_play", lock_reason |-> "", spot_scenarios |-> <<>>]

(* cfp_collegefootballplayoff.parse_rankings_from_html: the first table whose
   headers hold exactly "rank" and "team". *)
parse_rankings_from_html(page) ==
    IF page.table # "rank_team" THEN <<>>
    ELSE LET rows == SelectSeq(page.rows, RunnerRowOk)
         IN  [i \in 1..Len(rows) |-> RunnerRanking(rows[i])]

fetch_cfp_data_from_cfp_site(url, page, t) ==
    IF url = "" \/ ~FetchOk(page) THEN Raised
    ELSE Returned(
        [keys |-> <<"last_updated", "sources", "cfp_source_id", "conf_source_id",
                    "rankings", "games", "polls", "conferences">>,
         val  |-> [last_updated |-> t,
                   sources |-> <<[id |-> "1", label |-> "College Football Playoff",
                                  url |-> url]>>,
                   cfp_source_id |-> "1",
                   conf_source_id |-> "null",
                   rankings |-> parse_rankings_from_html(page),
                   games |-> <<>>,
                   polls |-> <<>>,
                   conferences |-> <<>>]])

fetch_from_source(type, url, page, t) ==
    IF type \in SourceTypes
    THEN fetch_cfp_data_from_cfp_site(url, page, t)
    ELSE Raised

RMainStart ==
    /\ script = "ingest_runner"
    /\ StartRun(config)

(* run_for_sport, lines 43-58. *)
RRunBegin ==
    /\ script = "ingest_runner"
    /\ pc = "main_loop"
    /\ di <= Len(queue)
    /\ LET sp == queue[di] IN
       IF ~sp.enabled THEN
           /\ outcome' = [outcome EXCEPT ![sp.key] = Ended("SKIPPED", "none", <<>>)]
           /\ NextDataset(FALSE)
           /\ UNCHANGED <<candidates, si, last_error>>
       ELSE IF sp.output_file = "" \/ sp.sources = <<>> THEN
           /\ outcome' = [outcome EXCEPT ![sp.key] = Ended("CONFIG_ERROR", "none", <<>>)]
           /\ NextDataset(FALSE)
           /\ UNCHANGED <<candidates, si, last_error>>
       ELSE
           /\ candidates' = SortSources(sp.sources)
           /\ si' = 1
           /\ last_error' = ""
           /\ pc' = IF SortSources(sp.sources) = <<>> THEN "ds_finish" ELSE "ds_loop"
           /\ UNCHANGED <<outcome, ok_all, di>>
    /\ UNCHANGED <<script, config, runs, exitCode, unhandled, disk, web, now, queue,
                   data, did_error, working, attempts, disk0>>
    /\ UNCHANGED commitVars
    /\ UNCHANGED selVars
    /\ UNCHANGED cfgVars
    /\ UNCHANGED written

(* run_for_sport, lines 61-74: one iteration of "for src in sources_sorted". *)
RTrySource ==
    /\ script = "ingest_runner"
    /\ pc = "ds_loop"
    /\ si <= Len(candidates)
    /\ LET sp == queue[di]
           src == candidates[si]
           known == src.type \in SourceTypes
       IN  \E w \in (IF known THEN Sample(web, {src.id}) ELSE {web}) :
             LET page == IF known THEN w[src.id] ELSE NotFetched
                 r == fetch_from_source(src.type, src.rankings_url, page, now)
             IN  /\ web' = w
                 /\ attempts' = Append(attempts, Attempt(sp.key, src.id, page))
                 /\ last_error' = IF r.raised THEN src.id ELSE last_error
                 /\ IF ~r.raised THEN
                        /\ disk' = write_json_relpath(disk, sp.output_file, r.value)
                        /\ outcome' = [outcome EXCEPT ![sp.key] =
                               Ended("SUCCEEDED", src.id,
                                     [i \in 1..Len(candidates) |-> candidates[i].id])]
                        /\ NextDataset(TRUE)
                        /\ si' = si
                    ELSE
                        /\ disk' = disk
                        /\ outcome' = outcome
                        /\ si' = IF si = Len(candidates) THEN si ELSE si + 1
                        /\ pc' = IF si = Len(candidates) THEN "ds_finish" ELSE "ds_loop"
                        /\ UNCHANGED <<ok_all, di>>
    /\ UNCHANGED <<script, config, runs, exitCode, unhandled, now, queue, candidates,
                   data, did_error, working, disk0>>
    /\ UNCHANGED commitVars
    /\ UNCHANGED selVars
    /\ UNCHANGED cfgVars
    /\ UNCHANGED written

(* run_for_sport, lines 76-77: all sources failed. *)
RExhausted ==
    /\ script = "ingest_runner"
    /\ pc = "ds_finish"
    /\ outcome' = [outcome EXCEPT ![queue[di].key] =
           Ended("EXHAUSTED", "none", [i \in 1..Len(candidates) |-> candidates[i].id])]
    /\ NextDataset(FALSE)
    /\ UNCHANGED <<script, config, runs, exitCode, unhandled, disk, web, now, queue,
                   candidates, si, data, did_error, working, attempts, disk0>>
    /\ UNCHANGED commitVars
    /\ UNCHANGED selVars
    /\ UNCHANGED cfgVars
    /\ UNCHANGED logVars

RMainEnd ==
    /\ script = "ingest_runner"
    /\ MainReturns(ExitCode(ok_all))

(***************************************************************************)
(* tools/cfp/update_cfp_data.py                                            *)
(***************************************************************************)
Top12 == 12
CFP_RANKINGS_URL == "https://collegefootballplayoff.com/rankings.aspx"

UpdateRowOk(r) == r.ncells >= 2 /\ IntParses(r)

UpdateRanking(r) ==
    [seed |-> r.seed, team |-> r.team, record |-> "", conference |-> "",
     status |-> "in_play", lock_reason |-> ""]

KeepTop12(e) == e.seed <= Top12

(* _parse_cfp_rankings: [] when no table has "rank" and "team" headers. *)
_parse_cfp_rankings(page) ==
    IF page.table # "rank_team" THEN <<>>
    ELSE LET rows == SelectSeq(page.rows, UpdateRowOk)
         IN  SelectSeq([i \in 1..Len(rows) |-> UpdateRanking(rows[i])], KeepTop12)

CfpSourceEntry == [id |-> "1", label |-> "College Football Playoff",
                   url |-> CFP_RANKINGS_URL]

EnsureCfpSource_mut(sources) == Append(sources, CfpSourceEntry)

(* _update_rankings, lines 145-151: append the CFP entry if id "1" is not
   there. *)
EnsureCfpSource(sources) ==
    IF \E i \in 1..Len(sources) : sources[i].id = "1"
    THEN sources
    ELSE Append(sources, CfpSourceEntry)

_update_rankings(existing, new_rankings, t) ==
    LET d1 == Put(Put(existing, "rankings", new_rankings), "last_updated", t)
        sources == Get(d1, "sources", <<>>)
        sources2 == EnsureCfpSource(sources)
        d2 == Put(Put(d1, "sources", sources2), "cfp_source_id", "1")
    IN  IF Has(d2, "conf_source_id") THEN d2 ELSE Put(d2, "conf_source_id", "4")

(* main(), lines 166-185, as one step: the script has a single source. *)
UpdMain ==
    /\ script = "update_cfp_data"
    /\ pc = "idle"
    /\ runs < MaxRuns
    /\ \E w \in Sample(web, {CFP_RANKINGS_URL}) :
         LET page == w[CFP_RANKINGS_URL]
             existing == _load_existing_data(disk[CfpData])
             rankings == _parse_cfp_rankings(page)
             failed == ~FetchOk(page) \/ rankings = <<>>
         IN  /\ web' = w
             /\ attempts' = <<Attempt("cfp_rankings", CFP_RANKINGS_URL, page)>>
             /\ disk0' = disk
             /\ disk' = IF failed THEN disk
                        ELSE _save_data(disk, CfpData, _update_rankings(existing, rankings, now))
             /\ outcome' = [NoOutcomes EXCEPT !["cfp_rankings"] =
                   IF failed THEN Ended("EXHAUSTED", "none", <<CFP_RANKINGS_URL>>)
                   ELSE Ended("SUCCEEDED", CFP_RANKINGS_URL, <<CFP_RANKINGS_URL>>)]
             /\ exitCode' = IF failed THEN 1 ELSE 0
    /\ runs' = runs + 1
    /\ UNCHANGED <<script, config, pc, unhandled, now, queue, di, ok_all, candidates,
                   si, data, did_error, working>>
    /\ UNCHANGED commitVars
    /\ UNCHANGED selVars
    /\ UNCHANGED cfgVars
    /\ UNCHANGED logVars

(***************************************************************************)
(* scripts/cfp_ingest_standings_polls.py                                   *)
(***************************************************************************)
(* save_json: the temporary file is path.with_suffix(".tmp.json"). *)
standings_save_json(fs, p, d) ==
    Rename(WriteAll(OpenW(fs, TmpJsonOf(p)), TmpJsonOf(p), d), TmpJsonOf(p), p)

(* The empty string main() puts in last_updated of a fresh structure: a
   timestamp no reading of the clock equals. *)
EmptyStamp == 0 - 1

(* main(), lines 205-212. *)
FreshStructure ==
    [keys |-> <<"last_updated", "rankings", "polls", "conferences", "games", "sources">>,
     val  |-> [last_updated |-> EmptyStamp, rankings |-> <<>>, polls |-> <<>>,
               conferences |-> <<>>, games |-> <<>>, sources |-> <<>>]]

(* cfp/cfp_sources.yaml, as update_polls and update_standings read it. *)
SPSource(id, kind, enabled) == [id |-> id, url |-> id, kind |-> kind, enabled |-> enabled]

SPConfig ==
    [poll_sources |-> << SPSource("sp_cfp", "cfp_rankings", TRUE),
                         SPSource("sp_coaches", "coaches_poll", FALSE),
                         SPSource("sp_ap", "ap_poll", TRUE) >>,
     standing_sources |-> << SPSource("sp_espn", "conference_standings", TRUE) >>]

(* The parsers are stubs: each returns []. *)
parse_cfp_official_rankings(page) == <<>>
parse_ap_poll(page) == <<>>
parse_coaches_poll(page) == <<>>
parse_espn_standings(page) == <<>>

PollsAfter_mut(polls, src, page) == <<>>

(* update_polls, lines 131-165: the body of the loop after fetch_html. *)
PollsAfter(polls, src, page) ==
    LET Without(name) == LET Keep(p) == p.name # name IN SelectSeq(polls, Keep)
        Entry(name, teams) == [name |-> name, source_id |-> src.id, teams |-> teams]
    IN  IF src.kind = "cfp_rankings" THEN
            IF parse_cfp_official_rankings(page) # <<>>
            THEN <<Entry("CFP Rankings", parse_cfp_official_rankings(page))>>
                     \o Without("CFP Rankings")
            ELSE polls
        ELSE IF src.kind = "ap_poll" THEN
            IF parse_ap_poll(page) # <<>>
            THEN Append(Without("AP Top 25"), Entry("AP Top 25", parse_ap_poll(page)))
            ELSE polls
        ELSE IF src.kind = "coaches_poll" THEN
            IF parse_coaches_poll(page) # <<>>
            THEN Append(Without("Coaches Poll"), Entry("Coaches Poll", parse_coaches_poll(page)))
            ELSE polls
        ELSE polls

(* main(), lines 196-212, and the first lines of update_polls.  load_json
   has no try/except: a file that does not parse raises out of main(). *)
SPMainStart ==
    /\ script = "cfp_ingest_standings_polls"
    /\ pc = "idle"
    /\ runs < MaxRuns
    /\ unhandled = "none"
    /\ LET f == disk[CfpData] IN
       IF f.exists /\ ~Complete(f) THEN
           /\ unhandled' = "JSONDecodeError"
           /\ pc' = "raised"
           /\ UNCHANGED <<working, candidates, si, data>>
       ELSE
           LET loaded == IF f.exists THEN f.doc ELSE EmptyDict
               d == IF loaded.keys = <<>> THEN FreshStructure ELSE loaded
           IN  /\ working' = d
               /\ candidates' = config.poll_sources
               /\ si' = 1
               /\ data' = SomeData(Get(d, "polls", <<>>))
               /\ pc' = "polls_loop"
               /\ unhandled' = unhandled
    /\ attempts' = <<>>
    /\ outcome' = NoOutcomes
    /\ disk0' = disk
    /\ UNCHANGED <<script, config, runs, exitCode, disk, web, now, queue, di, ok_all, did_error>>
    /\ UNCHANGED commitVars
    /\ UNCHANGED selVars
    /\ UNCHANGED cfgVars
    /\ UNCHANGED logVars

(* update_polls, lines 122-167: one iteration of "for src in poll_sources",
   or the assignment after the loop.  fetch_html is not inside a try. *)
SPUpdatePolls ==
    /\ script = "cfp_ingest_standings_polls"
    /\ pc = "polls_loop"
    /\ IF si > Len(candidates) THEN
           /\ working' = Put(working, "polls", data.val)
           /\ data' = SomeData(Get(working, "conferences", <<>>))
           /\ candidates' = config.standing_sources
           /\ si' = 1
           /\ pc' = "standings_loop"
           /\ UNCHANGED <<web, attempts, unhandled>>
       ELSE IF ~candidates[si].enabled THEN
           /\ si' = si + 1
           /\ UNCHANGED <<working, data, candidates, pc, web, attempts, unhandled>>
       ELSE
           LET src == candidates[si] IN
           \E w \in Sample(web, {src.url}) :
               /\ web' = w
               /\ attempts' = Append(attempts, Attempt("poll_sources", src.id, w[src.url]))
               /\ IF ~FetchOk(w[src.url]) THEN
                      /\ unhandled' = "HTTPError"
                      /\ pc' = "raised"
                      /\ UNCHANGED <<data, si>>
                  ELSE
                      /\ data' = SomeData(PollsAfter(data.val, src, w[src.url]))
                      /\ si' = si + 1
                      /\ UNCHANGED <<pc, unhandled>>
               /\ UNCHANGED <<working, candidates>>
    /\ UNCHANGED <<script, config, runs, exitCode, disk, now, queue, di, ok_all,
                   did_error, outcome, disk0>>
    /\ UNCHANGED commitVars
    /\ UNCHANGED selVars
    /\ UNCHANGED cfgVars
    /\ UNCHANGED logVars

(* update_standings, lines 176-193: one iteration of "for src in
   standing_sources", or the assignment after the loop. *)
SPUpdateStandings ==
    /\ script = "cfp_ingest_standings_polls"
    /\ pc = "standings_loop"
    /\ IF si > Len(candidates) THEN
           /\ working' = Put(working, "conferences", data.val)
           /\ pc' = "save"
           /\ UNCHANGED <<data, si, web, attempts, unhandled>>
       ELSE IF ~candidates[si].enabled THEN
           /\ si' = si + 1
           /\ UNCHANGED <<working, data, pc, web, attempts, unhandled>>
       ELSE
           LET src == candidates[si] IN
           \E w \in Sample(web, {src.url}) :
               LET parsed == parse_espn_standings(w[src.url])
                   won == src.kind = "conference_standings" /\ parsed # <<>>
               IN  /\ web' = w
                   /\ attempts' = Append(attempts,
                                         Attempt("standing_sources", src.id, w[src.url]))
                   /\ IF ~FetchOk(w[src.url]) THEN
                          /\ unhandled' = "HTTPError"
                          /\ pc' = "raised"
                          /\ UNCHANGED <<data, si, working>>
                      ELSE
                          /\ data' = IF won THEN SomeData(parsed) ELSE data
                          /\ working' = IF won THEN Put(working, "conf_source_id", src.id)
                                        ELSE working
                          /\ si' = IF won THEN Len(candidates) + 1 ELSE si + 1
                          /\ UNCHANGED <<pc, unhandled>>
    /\ UNCHANGED <<script, config, runs, exitCode, disk, now, queue, di, ok_all,
                   candidates, did_error, outcome, disk0>>
    /\ UNCHANGED commitVars
    /\ UNCHANGED selVars
    /\ UNCHANGED cfgVars
    /\ UNCHANGED logVars

(* main(), lines 217-223: stamp and save. *)
SPMainEnd ==
    /\ script = "cfp_ingest_standings_polls"
    /\ pc = "save"
    /\ working' = Put(working, "last_updated", now)
    /\ disk' = standings_save_json(disk, CfpData, Put(working, "last_updated", now))
    /\ exitCode' = 0
    /\ runs' = runs + 1
    /\ pc' = "idle"
    /\ UNCHANGED <<script, config, unhandled, web, now, queue, di, ok_all, candidates,
                   si, data, did_error, attempts, outcome, disk0>>
    /\ UNCHANGED commitVars
    /\ UNCHANGED selVars
    /\ UNCHANGED cfgVars
    /\ UNCHANGED logVars

(***************************************************************************)
(* A dict keyed by id, as "{s['id']: s for s in ...}" and "d[sid] = entry"  *)
(* build it: a key keeps the place of its first assignment and the value   *)
(* of its last one.  The dict is kept as the sequence of its values.       *)
(***************************************************************************)
Upsert(seq, e) ==
    IF \E i \in 1..Len(seq) : seq[i].id = e.id
    THEN [i \in 1..Len(seq) |-> IF seq[i].id = e.id THEN e ELSE seq[i]]
    ELSE Append(seq, e)

RECURSIVE UpsertAll(_, _)
UpsertAll(acc, list) ==
    IF list = <<>> THEN acc ELSE UpsertAll(Upsert(acc, Head(list)), Tail(list))

(***************************************************************************)
(* scripts/cfp_scrape.py                                                   *)
(***************************************************************************)
CFP_PRIMARY_URL == "https://www.espn.com/college-football/rankings"
STANDINGS_URL == "https://www.espn.com/college-football/standings"
ScrapeTop == 12

save_data(fs, p, d) == WriteAll(OpenW(fs, p), p, d)

load_existing_data(f) == IF Complete(f) THEN f.doc ELSE EmptyDict

ScrapeRowOk(r) == r.ncells >= 3 /\ IntParses(r)

ScrapeTeam(r) == [rank |-> r.seed, team |-> r.team, record |-> "", conference |-> ""]

ScrapeRanking(t) ==
    [seed |-> t.rank, team |-> t.team, record |-> t.record, conference |-> t.conference,
     status |-> "in_play", lock_reason |-> "", spot_scenarios |-> <<>>]

(* parse_rankings_from_espn: the first table of the page is the CFP poll,
   whatever its headers. *)
parse_rankings_from_espn(page) ==
    LET rows == IF page.table = "none" THEN <<>> ELSE SelectSeq(page.rows, ScrapeRowOk)
        teams == [i \in 1..Len(rows) |-> ScrapeTeam(rows[i])]
        top == IF Len(teams) < ScrapeTop THEN Len(teams) ELSE ScrapeTop
    IN  IF teams = <<>> THEN [polls |-> <<>>, rankings |-> <<>>]
        ELSE [polls |-> <<[name |-> "CFP Rankings", source_id |-> "1", teams |-> teams]>>,
              rankings |-> [i \in 1..top |-> ScrapeRanking(teams[i])]]

SectionHasTeams(sec) == sec.teams # <<>>

parse_standings_from_espn(page) ==
    LET secs == SelectSeq(page.sections, SectionHasTeams)
    IN  [i \in 1..Len(secs) |->
            [id |-> secs[i].name, name |-> secs[i].name, teams |-> secs[i].teams]]

ScrapeFallback_mut(new, old) == new

(* build_cfp_data, lines 266-275: "if not data[x] and existing.get(x)". *)
ScrapeFallback(new, old) == IF new = <<>> THEN old ELSE new

(* build_cfp_data, lines 215-278; w is the web, t the clock. *)
build_cfp_data(existing, w, t) ==
    LET base == << [id |-> "1", label |-> "ESPN Rankings", url |-> CFP_PRIMARY_URL],
                   [id |-> "4", label |-> "ESPN Standings", url |-> STANDINGS_URL] >>
        NotInBase(src) == \A i \in 1..Len(base) : base[i].id # src.id
        existing_sources == UpsertAll(<<>>, Get(existing, "sources", <<>>))
        sources == base \o SelectSeq(existing_sources, NotInBase)
        old_rankings == Get(existing, "rankings", <<>>)
        old_polls == Get(existing, "polls", <<>>)
        old_confs == Get(existing, "conferences", <<>>)
        rank_ok == FetchOk(w[CFP_PRIMARY_URL])
        parsed == parse_rankings_from_espn(w[CFP_PRIMARY_URL])
        rankings1 == IF rank_ok THEN parsed.rankings ELSE old_rankings
        polls1 == IF rank_ok THEN parsed.polls ELSE old_polls
        confs1 == IF FetchOk(w[STANDINGS_URL])
                  THEN parse_standings_from_espn(w[STANDINGS_URL]) ELSE old_confs
    IN  [keys |-> <<"last_updated", "sources", "cfp_source_id", "conf_source_id",
                    "rankings", "games", "polls", "conferences">>,
         val  |-> [last_updated |-> t,
                   sources |-> sources,
                   cfp_source_id |-> "1",
                   conf_source_id |-> "4",
                   rankings |-> ScrapeFallback(rankings1, old_rankings),
                   games |-> Get(existing, "games", <<>>),
                   polls |-> ScrapeFallback(polls1, old_polls),
                   conferences |-> ScrapeFallback(confs1, old_confs)]]

(* main(), lines 284-289, as one step: fetch_html catches every exception. *)
ScrapeMain ==
    /\ script = "cfp_scrape"
    /\ pc = "idle"
    /\ runs < MaxRuns
    /\ \E w \in Sample(web, {CFP_PRIMARY_URL, STANDINGS_URL}) :
         /\ web' = w
         /\ attempts' = << Attempt("scrape_rankings", CFP_PRIMARY_URL, w[CFP_PRIMARY_URL]),
                           Attempt("scrape_standings", STANDINGS_URL, w[STANDINGS_URL]) >>
         /\ disk' = save_data(disk, CfpData,
                        build_cfp_data(load_existing_data(disk[CfpData]), w, now))
    /\ disk0' = disk
    /\ outcome' = NoOutcomes
    /\ exitCode' = 0
    /\ runs' = runs + 1
    /\ UNCHANGED <<script, config, pc, unhandled, now, queue, di, ok_all, candidates,
                   si, data, did_error, working>>
    /\ UNCHANGED commitVars
    /\ UNCHANGED selVars
    /\ UNCHANGED cfgVars
    /\ UNCHANGED logVars

(***************************************************************************)
(* tools/cfp_ingest_phase2.py                                              *)
(***************************************************************************)
P2Cfg(id, url) == [id |-> id, url |-> url]

(* cfp/cfp-sources.json: the polls and standings that are configured, in
   the order main() visits them, and the source index. *)
P2Config ==
    [polls |-> << [key |-> "cfp", name |-> "CFP Rankings",
                   cfg |-> P2Cfg("cfp_official", "p2_cfp")],
                  [key |-> "ap", name |-> "AP Top 25",
                   cfg |-> P2Cfg("ap_poll", "p2_ap")] >>,
     standings |-> << [key |-> "fbs", cfg |-> P2Cfg("espn_standings", "p2_fbs")] >>,
     source_index |-> << [id |-> "cfp_official", label |-> "CFP", url |-> "p2_cfp"],
                         [id |-> "9", label |-> "Manual (index)", url |-> "manual"],
                         [id |-> "espn_standings", label |-> "ESPN", url |-> "p2_fbs"],
                         [id |-> "cfp_official", label |-> "CFP official", url |-> "p2_cfp"] >>]

P2Default ==
    [keys |-> <<"last_updated", "sources", "cfp_source_id", "conf_source_id",
                "rankings", "games", "polls", "conferences">>,
     val  |-> [last_updated |-> EmptyStamp, sources |-> <<>>,
               cfp_source_id |-> "cfp_official", conf_source_id |-> "espn_standings",
               rankings |-> <<>>, games |-> <<>>, polls |-> <<>>, conferences |-> <<>>]]

load_json(f, default) == IF Complete(f) THEN f.doc ELSE default

phase2_save_json(fs, p, d) == WriteAll(OpenW(fs, p), p, d)

P2RowOk(r) == r.ncells >= 2 /\ IntParses(r)

P2Team(r) == [rank |-> r.seed, team |-> r.team, record |-> "", conference |-> ""]

parse_generic_poll_table(page) ==
    LET rows == IF page.table = "none" THEN <<>> ELSE SelectSeq(page.rows, P2RowOk)
    IN  [i \in 1..Len(rows) |-> P2Team(rows[i])]

fetch_espn_standings(page) ==
    LET secs == SelectSeq(page.sections, SectionHasTeams)
    IN  [i \in 1..Len(secs) |->
            [id |-> secs[i].name, name |-> secs[i].name, teams |-> secs[i].teams]]

(* main(), lines 271-283. *)
SourcesById(existing_sources, source_index_cfg) ==
    UpsertAll(UpsertAll(<<>>, existing_sources), source_index_cfg)

(* The urls main() fetches, in order. *)
P2Urls(cfg) ==
    [i \in 1..Len(cfg.polls) |-> cfg.polls[i].cfg.url]
        \o [i \in 1..Len(cfg.standings) |-> cfg.standings[i].cfg.url]

(* main(), lines 371-380. *)
P2Result(existing, cfg, w, t) ==
    LET new_polls == [i \in 1..Len(cfg.polls) |->
                        [name |-> cfg.polls[i].name, source_id |-> cfg.polls[i].cfg.id,
                         teams |-> parse_generic_poll_table(w[cfg.polls[i].cfg.url])]]
        new_confs == IF cfg.standings = <<>> THEN <<>>
                     ELSE fetch_espn_standings(w[cfg.standings[1].cfg.url])
        d1 == Put(existing, "last_updated", t)
        d2 == Put(d1, "sources",
                  SourcesById(Get(existing, "sources", <<>>), cfg.source_index))
        d3 == IF \E i \in 1..Len(cfg.polls) : cfg.polls[i].key = "cfp"
              THEN Put(d2, "cfp_source_id",
                       cfg.polls[CHOOSE i \in 1..Len(cfg.polls) :
                                     cfg.polls[i].key = "cfp"].cfg.id)
              ELSE d2
        d4 == Put(d3, "conf_source_id", "espn_standings")
    IN  Put(Put(d4, "polls", new_polls), "conferences", new_confs)

(* main(), lines 248-382, as one step.  fetch_html calls raise_for_status
   outside any try: the first failing fetch raises out of main(). *)
P2Main ==
    /\ script = "cfp_ingest_phase2"
    /\ pc = "idle"
    /\ runs < MaxRuns
    /\ unhandled = "none"
    /\ LET urls == P2Urls(config) IN
       \E w \in Sample(web, Range(urls)) :
         LET Bad(i) == ~FetchOk(w[urls[i]])
             fetched == IF \E i \in 1..Len(urls) : Bad(i)
                        THEN CHOOSE i \in 1..Len(urls) :
                                 Bad(i) /\ \A j \in 1..(i - 1) : ~Bad(j)
                        ELSE Len(urls)
             existing == load_json(disk[CfpData], P2Default)
         IN  /\ web' = w
             /\ attempts' = [i \in 1..fetched |-> Attempt("phase2", urls[i], w[urls[i]])]
             /\ IF \E i \in 1..Len(urls) : Bad(i) THEN
                    /\ unhandled' = "HTTPError"
                    /\ pc' = "raised"
                    /\ UNCHANGED <<disk, exitCode, runs>>
                ELSE
                    /\ disk' = phase2_save_json(disk, CfpData,
                                                P2Result(existing, config, w, now))
                    /\ exitCode' = 0
                    /\ runs' = runs + 1
                    /\ UNCHANGED <<pc, unhandled>>
    /\ disk0' = disk
    /\ outcome' = NoOutcomes
    /\ UNCHANGED <<script, config, now, queue, di, ok_all, candidates,
                   si, data, did_error, working>>
    /\ UNCHANGED commitVars
    /\ UNCHANGED selVars
    /\ UNCHANGED cfgVars
    /\ UNCHANGED logVars

(***************************************************************************)
(* scripts/ingest_sports.py                                                *)
(***************************************************************************)
(* data/ingestion/sports_sources.json, season 2025 of sport ncaaf. *)
SportsConfig(has_backup) ==
    [cfp_primary |-> [type |-> "scrape", url |-> "sports_cfp"],
     has_backup |-> has_backup,
     standings_url |-> "sports_standings",
     ap_url |-> "sports_ap",
     coaches_url |-> ""]

SportsConfigs == {SportsConfig(TRUE), SportsConfig(FALSE)}

(* Pages with a table of more than five rows: one whose rows repeat a seed,
   are out of order, have seed 0 and lack the team cell, and one with no
   row that starts with digits. *)
PageLong ==
    [status |-> 200, table |-> "rank_team",
     rows |-> <<HeaderRow, Row("digits", 2, "Texas"), Row("digits", 1, "Oregon"),
                Row("digits", 2, "Texas"),
                [ncells |-> 1, c0 |-> "digits", seed |-> 0, team |-> ""],
                Row("signed", 0 - 1, "Rice"), Row("text", 0, "Others")>>,
     sections |-> <<>>]

PageLongEmpty ==
    [status |-> 200, table |-> "rank_team",
     rows |-> <<HeaderRow, Row("text", 0, "a"), Row("text", 0, "b"), Row("text", 0, "c"),
                Row("text", 0, "d"), Row("text", 0, "e")>>,
     sections |-> <<>>]

SportsPages == {PageErr, PageJunk, PageA, PageLong, PageLongEmpty}

SportsRowOk(r) == r.ncells > 0 /\ IsDigit(r)

SportsRanking(r) ==
    [seed |-> r.seed, team |-> IF r.ncells > 1 THEN r.team ELSE "",
     record |-> "", conference |-> "", status |-> "in_play",
     lock_reason |-> "", spot_scenarios |-> <<>>]

(* The first table with more than five <tr>. *)
SportsSuitable(page) == page.table # "none" /\ Len(page.rows) > 5

(* fetch_cfp_rankings_official, lines 42-107: raises on a failed request, on
   a page without a suitable table and on zero parsed rows. *)
fetch_cfp_rankings_official(page) ==
    IF ~FetchOk(page) \/ ~SportsSuitable(page) THEN Raised
    ELSE LET rows == SelectSeq(Tail(page.rows), SportsRowOk)
         IN  IF rows = <<>> THEN Raised
             ELSE Returned([i \in 1..Len(rows) |-> SportsRanking(rows[i])])

(* fetch_cfp_rankings_backup, lines 110-123: a stub. *)
fetch_cfp_rankings_backup == <<>>

(* build_ncaaf_2025_state, lines 192-205: primary, then backup if the
   primary raised; [rankings, source]. *)
SportsRankings(cfg, page) ==
    LET r == fetch_cfp_rankings_official(page)
        got == IF ~r.raised THEN [rankings |-> r.value, source |-> "cfp_official"]
               ELSE IF cfg.has_backup
               THEN [rankings |-> fetch_cfp_rankings_backup,
                     source |-> "backup_unimplemented"]
               ELSE [rankings |-> <<>>, source |-> "none"]
    IN  [rankings |-> SortedByKey([i \in 1..Len(got.rankings) |->
                         [k |-> got.rankings[i].seed, v |-> got.rankings[i]]]),
         source |-> got.source]

SportsPoll(name, sid) == [name |-> name, source_id |-> sid, teams |-> <<>>]

(* build_ncaaf_2025_state, lines 172-287. *)
build_ncaaf_2025_state(cfg, page, t) ==
    LET got == SportsRankings(cfg, page) IN
    [keys |-> <<"last_updated", "sources", "cfp_source_id", "conf_source_id",
                "rankings", "games", "polls", "conferences", "_meta">>,
     val  |-> [last_updated |-> t,
               sources |-> << [id |-> "CFP", label |-> "College Football Playoff",
                               url |-> cfg.cfp_primary.url],
                              [id |-> "AP", label |-> "AP Top 25", url |-> cfg.ap_url],
                              [id |-> "COACHES", label |-> "Coaches Poll",
                               url |-> cfg.coaches_url],
                              [id |-> "STANDINGS", label |-> "ESPN NCAAF Standings",
                               url |-> cfg.standings_url] >>,
               cfp_source_id |-> "CFP",
               conf_source_id |-> "STANDINGS",
               rankings |-> got.rankings,
               games |-> <<>>,
               polls |-> (IF cfg.ap_url # "" THEN <<SportsPoll("AP Top 25", "AP")>>
                          ELSE <<>>)
                         \o (IF cfg.coaches_url # ""
                             THEN <<SportsPoll("Coaches Poll", "COACHES")>> ELSE <<>>),
               conferences |-> <<>>,
               _meta |-> [rankings_source |-> got.source, generated_at |-> t]]]

(* main(), lines 290-308, as one step; the file is opened with "w" and
   dumped into. *)
SportsMain ==
    /\ script = "ingest_sports"
    /\ pc = "idle"
    /\ runs < MaxRuns
    /\ LET url == config.cfp_primary.url IN
       \E w \in SampleFrom(web, {url}, SportsPages) :
         /\ web' = w
         /\ attempts' =
              <<Attempt("sports_cfp", "primary", w[url])>>
              \o (IF fetch_cfp_rankings_official(w[url]).raised /\ config.has_backup
                  THEN <<Attempt("sports_cfp", "backup", NotFetched)>> ELSE <<>>)
         /\ disk' = WriteAll(OpenW(disk, SportsData), SportsData,
                             build_ncaaf_2025_state(config, w[url], now))
    /\ written' = <<SportsData>>
    /\ disk0' = disk
    /\ outcome' = NoOutcomes
    /\ exitCode' = 0
    /\ runs' = runs + 1
    /\ UNCHANGED <<script, config, pc, unhandled, now, queue, di, ok_all, candidates,
                   si, data, did_error, working, last_error>>
    /\ UNCHANGED commitVars
    /\ UNCHANGED selVars
    /\ UNCHANGED cfgVars

(***************************************************************************)
(* json.dumps(..., sort_keys=True): the keys of the document in ascending  *)
(* order of their text.  KeyOrder lists the keys the documents use in that *)
(* order.                                                                  *)
(***************************************************************************)
KeyOrder == <<"_meta", "cfp_source_id", "conf_source_id", "conferences", "games",
              "last_release", "last_sync_utc", "last_updated", "note", "polls",
              "rankings", "season", "source", "sources", "teams">>

KeyIndex(k) == CHOOSE i \in 1..Len(KeyOrder) : KeyOrder[i] = k

Canon(d) ==
    [keys |-> SortedByKey([i \in 1..Len(d.keys) |->
                  [k |-> KeyIndex(d.keys[i]), v |-> d.keys[i]]]),
     val  |-> d.val]

(* The text on disk at f is the sort_keys serialisation of d. *)
SameText(f, d) == Complete(f) /\ f.doc = Canon(d)

(***************************************************************************)
(* API responses: the HTTP status, what the body is as JSON ("invalid",    *)
(* "number", "array", "object") and the parts of it the scripts read.      *)
(***************************************************************************)
ApiPage(status, json) ==
    [status |-> status, json |-> json, entries |-> <<>>, files_is_dict |-> FALSE]

ApiRank(has_rank, rank, school) == [has_rank |-> has_rank, rank |-> rank, school |-> school]

TeamsDoc == [keys |-> <<"teams", "season">>, val |-> [teams |-> <<"Texas">>, season |-> 2025]]

(***************************************************************************)
(* cfp/cfp_ingest.py                                                       *)
(***************************************************************************)
CFBD_RANKINGS_URL == "https://api.collegefootballdata.com/rankings"
IngestTop == 12

(* The CFBD rankings payload: a list of weeks, each with its polls. *)
CfbdPoll(name, ranks) == [name |-> name, ranks |-> ranks]
CfbdWeek(season, seasonType, week, polls) ==
    [season |-> season, seasonType |-> seasonType, week |-> week, polls |-> polls]

RanksA == <<ApiRank(TRUE, 2, "Texas"), ApiRank(TRUE, 0, ""),
            ApiRank(TRUE, 13, "Rice"), ApiRank(FALSE, 0, "Navy"),
            ApiRank(TRUE, 0 - 1, "Army")>>
RanksB == <<ApiRank(TRUE, 1, "Oregon")>>

IngestPages ==
    {ApiPage(500, "invalid"), ApiPage(200, "invalid"), ApiPage(200, "array"),
     [ApiPage(200, "array") EXCEPT !.entries =
         <<CfbdWeek(2025, "regular", 14,
                    <<CfbdPoll("AP Top 25", RanksB),
                      CfbdPoll("Playoff Committee Rankings", RanksA)>>)>>],
     [ApiPage(200, "array") EXCEPT !.entries =
         <<CfbdWeek(2025, "regular", 1, <<CfbdPoll("CFP Rankings", RanksB)>>),
           CfbdWeek(2025, "postseason", 15, <<CfbdPoll("cfp rankings", RanksA)>>)>>],
     [ApiPage(200, "array") EXCEPT !.entries =
         <<CfbdWeek(2024, "regular", 15, <<CfbdPoll("CFP Rankings", RanksA)>>),
           CfbdWeek(2025, "regular", 14, <<CfbdPoll("CFP Rankings", RanksB)>>),
           CfbdWeek(2025, "regular", 14, <<CfbdPoll("College Football Playoff", RanksA)>>)>>],
     [ApiPage(200, "array") EXCEPT !.entries =
         <<CfbdWeek(2025, "regular", 14, <<CfbdPoll("AP Top 25", RanksB)>>)>>]}

(* pick_latest_cfp_snapshot, lines 56-57: the names whose upper case holds
   "CFP" or "PLAYOFF", among the names the payloads use. *)
CfpStyleNames == {"CFP Rankings", "cfp rankings", "Playoff Committee Rankings",
                  "College Football Playoff"}

(* The place of a seasonType in the order of Python strings:
   "" < "postseason" < "regular". *)
SeasonTypeOrder(st) == IF st = "" THEN 0 ELSE IF st = "postseason" THEN 1 ELSE 2

(* pick_latest_cfp_snapshot, lines 59-60: key > latest_key on the tuples
   (season, seasonType, week). *)
SnapshotKeyGreater(a, b) ==
    \/ a.season > b.season
    \/ /\ a.season = b.season
       /\ SeasonTypeOrder(a.seasonType) > SeasonTypeOrder(b.seasonType)
    \/ /\ a.season = b.season
       /\ SeasonTypeOrder(a.seasonType) = SeasonTypeOrder(b.seasonType)
       /\ a.week > b.week

(* pick_latest_cfp_snapshot, lines 54-67: the loop over the polls of one
   entry from its j-th poll on; latest is <<>> for None. *)
RECURSIVE PickPolls(_, _, _)
PickPolls(entry, j, latest) ==
    IF j > Len(entry.polls) THEN latest
    ELSE LET poll == entry.polls[j]
             take == /\ poll.name \in CfpStyleNames
                     /\ (latest = <<>> \/ SnapshotKeyGreater(entry, latest[1]))
         IN  PickPolls(entry, j + 1,
                 IF take THEN <<[season |-> entry.season, seasonType |-> entry.seasonType,
                                 week |-> entry.week, poll |-> poll]>>
                 ELSE latest)

RECURSIVE PickEntries(_, _, _)
PickEntries(weeks, i, latest) ==
    IF i > Len(weeks) THEN latest
    ELSE PickEntries(weeks, i + 1, PickPolls(weeks[i], 1, latest))

(* pick_latest_cfp_snapshot, lines 41-69. *)
pick_latest_cfp_snapshot(weeks) == PickEntries(weeks, 1, <<>>)

(* attach_all_polls, lines 142-164: the polls of the entries of the
   snapshot's season, week and seasonType. *)
RECURSIVE AllPolls(_, _, _)
AllPolls(snapshot, weeks, i) ==
    IF i > Len(weeks) THEN <<>>
    ELSE (IF /\ weeks[i].season = snapshot.season
             /\ weeks[i].week = snapshot.week
             /\ weeks[i].seasonType = snapshot.seasonType
          THEN weeks[i].polls ELSE <<>>) \o AllPolls(snapshot, weeks, i + 1)

attach_all_polls(snapshot, weeks) ==
    [season |-> snapshot.season, seasonType |-> snapshot.seasonType,
     week |-> snapshot.week, poll |-> snapshot.poll,
     all_polls |-> AllPolls(snapshot, weeks, 1)]

IngestKept(r) == r.has_rank /\ r.rank <= IngestTop

IngestTeam(r) == IF r.school = "" THEN "Unknown" ELSE r.school

IngestPollOut(p) ==
    [name |-> p.name, source_id |-> "cfbd",
     teams |-> [i \in 1..Len(p.ranks) |->
         [rank |-> p.ranks[i].rank, rank_is_null |-> ~p.ranks[i].has_rank,
          team |-> IngestTeam(p.ranks[i]), record |-> "-", conference |-> ""]]]

(* build_payload_from_snapshot, lines 72-139. *)
build_payload_from_snapshot(snapshot, t) ==
    LET kept == SelectSeq(snapshot.poll.ranks, IngestKept) IN
    [keys |-> <<"last_updated", "sources", "cfp_source_id", "conf_source_id",
                "rankings", "games", "polls", "conferences">>,
     val  |-> [last_updated |-> t,
               sources |-> <<[id |-> "cfbd", label |-> "CollegeFootballData.com Rankings API",
                              url |-> CFBD_RANKINGS_URL]>>,
               cfp_source_id |-> "cfbd",
               conf_source_id |-> "cfbd",
               rankings |-> [i \in 1..Len(kept) |->
                   [seed |-> kept[i].rank, team |-> IngestTeam(kept[i]), record |-> "-",
                    conference |-> "", status |-> "in_play", lock_reason |-> "",
                    spot_scenarios |-> <<>>]],
               games |-> <<>>,
               polls |-> [i \in 1..Len(snapshot.all_polls) |->
                             IngestPollOut(snapshot.all_polls[i])],
               conferences |-> <<>>]]

IngestSkipsWrite_mut(f, payload) == FALSE

(* main(), lines 186-200: the file parses and dumps to the text of the new
   payload. *)
IngestSkipsWrite(f, payload) == Complete(f) /\ Canon(f.doc) = Canon(payload)

(* The module body and main(), lines 13-16 and 167-211, as one step. *)
CfpIngestMain ==
    /\ script = "cfp_ingest"
    /\ pc = "idle"
    /\ runs < MaxRuns
    /\ IF config.CFBD_API_KEY = "" THEN
           /\ exitCode' = 1
           /\ UNCHANGED <<web, disk>>
           /\ attempts' = <<>>
           /\ working' = EmptyDict
           /\ written' = <<>>
       ELSE
           \E w \in SampleFrom(web, {CFBD_RANKINGS_URL}, IngestPages) :
             LET page == w[CFBD_RANKINGS_URL]
                 found == pick_latest_cfp_snapshot(page.entries)
                 failed == ~FetchOk(page) \/ page.json # "array" \/ found = <<>>
                 payload == build_payload_from_snapshot(
                                attach_all_polls(found[1], page.entries), now)
                 skip == IngestSkipsWrite(disk[CfpData], payload)
             IN  /\ web' = w
                 /\ attempts' = <<Attempt("cfbd", CFBD_RANKINGS_URL, page)>>
                 /\ exitCode' = IF failed THEN 1 ELSE 0
                 /\ working' = IF failed THEN EmptyDict ELSE payload
                 /\ disk' = IF failed \/ skip THEN disk
                            ELSE WriteAll(OpenW(disk, CfpData), CfpData, Canon(payload))
                 /\ written' = IF failed \/ skip THEN <<>> ELSE <<CfpData>>
    /\ disk0' = disk
    /\ outcome' = NoOutcomes
    /\ runs' = runs + 1
    /\ UNCHANGED <<script, config, pc, unhandled, now, queue, di, ok_all, candidates,
                   si, data, did_error, last_error>>
    /\ UNCHANGED commitVars
    /\ UNCHANGED selVars
    /\ UNCHANGED cfgVars

(***************************************************************************)
(* scripts/cfp_fetch.py                                                    *)
(***************************************************************************)
(* mapping, lines 53-59: two of its entries, in its order. *)
FetchMapping == << [key |-> "cfp_data", path |-> CfpData],
                   [key |-> "cfp_teams", path |-> TeamsData] >>

FetchEntry(key, doc) == [key |-> key, doc |-> doc]

FetchPages ==
    {ApiPage(404, "invalid"), ApiPage(500, "invalid"), ApiPage(200, "invalid"),
     ApiPage(200, "number"),
     [ApiPage(200, "object") EXCEPT !.entries = <<FetchEntry("cfp_teams", TeamsDoc)>>],
     [ApiPage(200, "object") EXCEPT
         !.entries = <<FetchEntry("cfp_data", OldDoc), FetchEntry("cfp_teams", TeamsDoc)>>]}

(* main(), lines 62-77: the loop over mapping from its i-th entry on;
   [fs, written]. *)
RECURSIVE FetchCommit(_, _, _, _)
FetchCommit(fs, wr, i, entries) ==
    IF i > Len(FetchMapping) THEN [fs |-> fs, written |-> wr]
    ELSE LET m == FetchMapping[i]
             present == \E j \in 1..Len(entries) : entries[j].key = m.key
             doc == entries[CHOOSE j \in 1..Len(entries) : entries[j].key = m.key].doc
         IN  IF present /\ ~SameText(fs[m.path], doc)
             THEN FetchCommit(WriteAll(OpenW(fs, m.path), m.path, Canon(doc)),
                              Append(wr, m.path), i + 1, entries)
             ELSE FetchCommit(fs, wr, i + 1, entries)

(* main(), lines 27-82, as one step.  "key not in payload" is outside the
   try: a payload that is no container raises TypeError out of main(). *)
CfpFetchMain ==
    /\ script = "cfp_fetch"
    /\ pc = "idle"
    /\ runs < MaxRuns
    /\ unhandled = "none"
    /\ IF config.CFP_API_URL = "" THEN
           /\ exitCode' = 0
           /\ runs' = runs + 1
           /\ attempts' = <<>>
           /\ written' = <<>>
           /\ UNCHANGED <<web, disk, pc, unhandled>>
       ELSE
           \E w \in SampleFrom(web, {"api_cfp"}, FetchPages) :
             LET page == w["api_cfp"]
                 quiet == ~FetchOk(page) \/ page.json = "invalid"
                 done == FetchCommit(disk, <<>>, 1, page.entries)
             IN  /\ web' = w
                 /\ attempts' = <<Attempt("cfp_fetch", "api_cfp", page)>>
                 /\ IF quiet THEN
                        /\ exitCode' = 0
                        /\ runs' = runs + 1
                        /\ written' = <<>>
                        /\ UNCHANGED <<disk, pc, unhandled>>
                    ELSE IF page.json = "number" THEN
                        /\ unhandled' = "TypeError"
                        /\ pc' = "raised"
                        /\ exitCode' = 1
                        /\ written' = <<>>
                        /\ UNCHANGED <<disk, runs>>
                    ELSE
                        /\ disk' = done.fs
                        /\ written' = done.written
                        /\ exitCode' = 0
                        /\ runs' = runs + 1
                        /\ UNCHANGED <<pc, unhandled>>
    /\ disk0' = disk
    /\ outcome' = NoOutcomes
    /\ UNCHANGED <<script, config, now, queue, di, ok_all, candidates,
                   si, data, did_error, working, last_error>>
    /\ UNCHANGED commitVars
    /\ UNCHANGED selVars
    /\ UNCHANGED cfgVars

(***************************************************************************)
(* scripts/cfp_sync.py                                                     *)
(***************************************************************************)
SyncFile(filename, doc) == [filename |-> filename, doc |-> doc]

(* main(), line 62: target = data_dir / filename, as the file system
   resolves it, for the filenames the payloads use. *)
DataDirJoin(filename) ==
    IF filename = "cfp-data.json" THEN CfpData
    ELSE IF filename = "cfp-teams.json" THEN TeamsData
    ELSE IndexHtml

SyncPages ==
    {ApiPage(500, "invalid"), ApiPage(200, "invalid"), ApiPage(200, "number"),
     ApiPage(200, "object"),
     [ApiPage(200, "object") EXCEPT !.files_is_dict = TRUE,
         !.entries = <<SyncFile("cfp-data.json", OldDoc),
                       SyncFile("cfp-teams.json", TeamsDoc)>>],
     [ApiPage(200, "object") EXCEPT !.files_is_dict = TRUE,
         !.entries = <<SyncFile("cfp-teams.json", TeamsDoc),
                       SyncFile("../index.html", TeamsDoc)>>]}

(* main(), lines 61-69: one open("w") and json.dump per file. *)
RECURSIVE SyncWrite(_, _)
SyncWrite(fs, files) ==
    IF files = <<>> THEN fs
    ELSE SyncWrite(WriteAll(OpenW(fs, DataDirJoin(Head(files).filename)),
                            DataDirJoin(Head(files).filename), Head(files).doc),
                   Tail(files))

(* main(), lines 72-77. *)
SyncMetaDoc(api_url, t) ==
    [keys |-> <<"season", "last_release", "source", "last_sync_utc">>,
     val  |-> [season |-> 2025, last_release |-> "r1", source |-> api_url,
               last_sync_utc |-> t]]

(* main(), lines 21-84, as one step.  payload.get is outside the try: a
   payload that is no object raises AttributeError out of main(). *)
CfpSyncMain ==
    /\ script = "cfp_sync"
    /\ pc = "idle"
    /\ runs < MaxRuns
    /\ unhandled = "none"
    /\ IF config.CFP_API_URL = "" THEN
           /\ exitCode' = 1
           /\ runs' = runs + 1
           /\ attempts' = <<>>
           /\ written' = <<>>
           /\ UNCHANGED <<web, disk, pc, unhandled>>
       ELSE
           \E w \in SampleFrom(web, {"cfp_api"}, SyncPages) :
             LET page == w["cfp_api"] IN
                 /\ web' = w
                 /\ attempts' = <<Attempt("cfp_sync", "cfp_api", page)>>
                 /\ IF ~FetchOk(page) \/ page.json = "invalid" THEN
                        /\ exitCode' = 1
                        /\ runs' = runs + 1
                        /\ written' = <<>>
                        /\ UNCHANGED <<disk, pc, unhandled>>
                    ELSE IF page.json # "object" THEN
                        /\ unhandled' = "AttributeError"
                        /\ pc' = "raised"
                        /\ exitCode' = 1
                        /\ written' = <<>>
                        /\ UNCHANGED <<disk, runs>>
                    ELSE IF ~page.files_is_dict THEN
                        /\ exitCode' = 1
                        /\ runs' = runs + 1
                        /\ written' = <<>>
                        /\ UNCHANGED <<disk, pc, unhandled>>
                    ELSE
                        /\ disk' = WriteAll(OpenW(SyncWrite(disk, page.entries), SyncMeta),
                                            SyncMeta, SyncMetaDoc(config.CFP_API_URL, now))
                        /\ written' = [i \in 1..Len(page.entries) |->
                                          DataDirJoin(page.entries[i].filename)]
                                          \o <<SyncMeta>>
                        /\ exitCode' = 0
                        /\ runs' = runs + 1
                        /\ UNCHANGED <<pc, unhandled>>
    /\ disk0' = disk
    /\ outcome' = NoOutcomes
    /\ UNCHANGED <<script, config, now, queue, di, ok_all, candidates,
                   si, data, did_error, working, last_error>>
    /\ UNCHANGED commitVars
    /\ UNCHANGED selVars
    /\ UNCHANGED cfgVars

(* The environment of the three scripts above. *)
ApiKeys == {"", "key-1", "key-2"}
ApiUrls == {"", "https://scw-1.example/cfp", "https://scw-2.example/cfp"}

(***************************************************************************)
(* scripts/fetch_cfp_data.py                                               *)
(***************************************************************************)
FetchDataUrls == {"fcd_rankings", "fcd_standings", "fcd_scoreboard"}

safe_get_json(f) == IF Complete(f) THEN f.doc ELSE EmptyDict

(* The scrapers are stubs: each returns []. *)
scrape_cfp_rankings(page) == <<>>
scrape_standings(page) == <<>>
scrape_games(page) == <<>>

build_sources_block ==
    << [id |-> "1", label |-> "College Football Playoff", url |-> "https://collegefootballplayoff.com"],
       [id |-> "2", label |-> "AP Top 25", url |-> "https://apnews.com"],
       [id |-> "3", label |-> "Coaches Poll", url |-> "https://sports.usatoday.com"],
       [id |-> "4", label |-> "ESPN Standings", url |-> "https://www.espn.com/college-football/standings"] >>

build_polls_stub == <<>>

(* main(), lines 197-233: a scrape that failed or gave nothing falls back
   to the existing value of the key. *)
ScrapedOrExisting(existing, key, page, scraped) ==
    LET got == IF FetchOk(page) THEN scraped ELSE <<>>
    IN  IF got = <<>> /\ Has(existing, key) THEN existing.val[key] ELSE got

(* main(), lines 246-249: the keys of existing that data lacks, from the
   i-th on. *)
RECURSIVE MergeExtras(_, _, _)
MergeExtras(doc, existing, i) ==
    IF i > Len(existing.keys) THEN doc
    ELSE LET k == existing.keys[i]
         IN  MergeExtras(IF Has(doc, k) THEN doc ELSE Put(doc, k, existing.val[k]),
                         existing, i + 1)

(* main(), lines 235-249. *)
FetchDataDoc(existing, w, t) ==
    MergeExtras(
        [keys |-> <<"last_updated", "sources", "cfp_source_id", "conf_source_id",
                    "rankings", "polls", "conferences", "games">>,
         val  |-> [last_updated |-> t,
                   sources |-> build_sources_block,
                   cfp_source_id |-> "1",
                   conf_source_id |-> "4",
                   rankings |-> ScrapedOrExisting(existing, "rankings", w["fcd_rankings"],
                                    scrape_cfp_rankings(w["fcd_rankings"])),
                   polls |-> IF Has(existing, "polls") THEN existing.val.polls
                             ELSE build_polls_stub,
                   conferences |-> ScrapedOrExisting(existing, "conferences",
                                       w["fcd_standings"],
                                       scrape_standings(w["fcd_standings"])),
                   games |-> ScrapedOrExisting(existing, "games", w["fcd_scoreboard"],
                                 scrape_games(w["fcd_scoreboard"]))]],
        existing, 1)

(* main(), lines 187-254, as one step: every fetch is inside a try. *)
FetchDataMain ==
    /\ script = "fetch_cfp_data"
    /\ pc = "idle"
    /\ runs < MaxRuns
    /\ \E w \in SampleFrom(web, FetchDataUrls, {PageErr, PageA}) :
         /\ web' = w
         /\ attempts' = << Attempt("fcd_rankings", "fcd_rankings", w["fcd_rankings"]),
                           Attempt("fcd_standings", "fcd_standings", w["fcd_standings"]),
                           Attempt("fcd_games", "fcd_scoreboard", w["fcd_scoreboard"]) >>
         /\ disk' = WriteAll(OpenW(disk, CfpData), CfpData,
                             FetchDataDoc(safe_get_json(disk[CfpData]), w, now))
    /\ written' = <<CfpData>>
    /\ disk0' = disk
    /\ outcome' = NoOutcomes
    /\ exitCode' = 0
    /\ runs' = runs + 1
    /\ UNCHANGED <<script, config, pc, unhandled, now, queue, di, ok_all, candidates,
                   si, data, did_error, working, last_error>>
    /\ UNCHANGED commitVars
    /\ UNCHANGED selVars
    /\ UNCHANGED cfgVars

(***************************************************************************)
(* The clock.                                                              *)
(***************************************************************************)
Tick ==
    /\ now < MaxClock
    /\ pc = "idle"
    /\ cpc = "idle"
    /\ now' = now + 1
    /\ UNCHANGED <<script, config, pc, runs, exitCode, unhandled, disk, web, queue, di,
                   ok_all, candidates, si, data, did_error, working, attempts,
                   outcome, disk0>>
    /\ UNCHANGED commitVars
    /\ UNCHANGED selVars
    /\ UNCHANGED cfgVars
    /\ UNCHANGED logVars

Scripts == {"universal_ingest", "ingest_runner", "update_cfp_data",
            "cfp_ingest_standings_polls", "cfp_scrape", "cfp_ingest_phase2",
            "ingest_sports", "cfp_ingest", "cfp_fetch", "cfp_sync",
            "fetch_cfp_data"}

InitCommit ==
    /\ cpc = "idle"
    /\ routine = "none"
    /\ cnew = EmptyDict
    /\ cprior = AbsentFile
    /\ observed = [seen |-> FALSE, file |-> AbsentFile]

InitPipe ==
    /\ pc = "idle"
    /\ runs = 0
    /\ exitCode = 0
    /\ unhandled = "none"
    /\ web = NoWeb
    /\ now = 1
    /\ queue = <<>>
    /\ di = 1
    /\ ok_all = TRUE
    /\ candidates = <<>>
    /\ si = 1
    /\ data = NoneData
    /\ did_error = FALSE
    /\ working = EmptyDict
    /\ attempts = <<>>
    /\ outcome = NoOutcomes

InitDisk ==
    \E f \in InitialFiles,
       g \in (IF script = "ingest_runner" THEN {AbsentFile, FullFile(OldDoc)}
              ELSE {AbsentFile}) :
        disk = [p \in Paths |-> IF p = CfpData THEN f ELSE IF p = NbaData THEN g
                                ELSE AbsentFile]

(* The configurations a script may find. *)
ConfigsOf(s) ==
    IF s = "universal_ingest" THEN UConfigs
    ELSE IF s = "ingest_runner" THEN RConfigs
    ELSE IF s = "cfp_ingest_standings_polls" THEN {SPConfig}
    ELSE IF s = "cfp_ingest_phase2" THEN {P2Config}
    ELSE IF s = "ingest_sports" THEN SportsConfigs
    ELSE IF s = "cfp_ingest" THEN {[CFBD_API_KEY |-> k] : k \in ApiKeys}
    ELSE IF s \in {"cfp_fetch", "cfp_sync"} THEN {[CFP_API_URL |-> u] : u \in ApiUrls}
    ELSE {<<>>}

NoRequest == [fn |-> "none", kind |-> "", has_season |-> FALSE, season |-> 0]

InitSelect ==
    /\ request = NoRequest
    /\ selected = <<>>

InitLog ==
    /\ last_error = ""
    /\ written = <<>>
    /\ dry_run \in (IF script = "universal_ingest" /\ config = UDatasets
                    THEN BOOLEAN ELSE {FALSE})

Init ==
    /\ script \in Scripts
    /\ config \in ConfigsOf(script)
    /\ InitSelect
    /\ InitLog
    /\ InitPipe
    /\ InitDisk
    /\ disk0 = disk
    /\ InitCommit

Next ==
    \/ UMainStart
    \/ URunDatasetBegin
    \/ URunMulti
    \/ UTrySource
    \/ URunDatasetEnd
    \/ UMainEnd
    \/ RMainStart
    \/ RRunBegin
    \/ RTrySource
    \/ RExhausted
    \/ RMainEnd
    \/ UpdMain
    \/ SPMainStart
    \/ SPUpdatePolls
    \/ SPUpdateStandings
    \/ SPMainEnd
    \/ ScrapeMain
    \/ P2Main
    \/ SportsMain
    \/ CfpIngestMain
    \/ CfpFetchMain
    \/ CfpSyncMain
    \/ FetchDataMain
    \/ Tick

Spec == Init /\ [][Next]_vars

(***************************************************************************)
(* The save routines step by step, with the process free to die between    *)
(* two file operations and a reader free to read the canonical path        *)
(* between any two of them.                                                *)
(*   temporary file + replace: universal_ingest.save_json_file,            *)
(*     update_cfp_data._save_data, cfp_ingest_standings_polls.save_json;   *)
(*   open(path, "w") on the canonical path: ingest_runner                  *)
(*     .write_json_relpath, cfp_scrape.save_data, cfp_ingest_phase2        *)
(*     .save_json, fetch_cfp_data.main (Path.write_text).                  *)
(***************************************************************************)
ReplaceRoutines == {"save_json_file", "_save_data", "standings_save_json"}
InPlaceRoutines == {"write_json_relpath", "save_data", "phase2_save_json", "write_text"}
SaveRoutines == ReplaceRoutines \cup InPlaceRoutines

(* The path the routine opens for writing. *)
OpenedPath(r) ==
    IF r \in {"save_json_file", "_save_data"} THEN TmpOf(CfpData)
    ELSE IF r = "standings_save_json" THEN TmpJsonOf(CfpData)
    ELSE CfpData

(* Documents a run may be committing. *)
NewDocs == {Put(OldDoc, "last_updated", 1),
            Put(Put(OldDoc, "rankings", <<>>), "last_updated", 1)}

(* The routine is called. *)
CBegin ==
    /\ cpc = "idle"
    /\ \E r \in SaveRoutines, d \in NewDocs :
         /\ routine' = r
         /\ cnew' = d
    /\ cprior' = disk[CfpData]
    /\ observed' = [seen |-> FALSE, file |-> AbsentFile]
    /\ cpc' = "open"
    /\ UNCHANGED disk
    /\ UNCHANGED pipeVars
    /\ UNCHANGED selVars
    /\ UNCHANGED cfgVars
    /\ UNCHANGED logVars

(* open(..., "w"): the opened path is created or truncated. *)
COpen ==
    /\ cpc = "open"
    /\ disk' = OpenW(disk, OpenedPath(routine))
    /\ cpc' = "write"
    /\ UNCHANGED <<routine, cnew, cprior, observed>>
    /\ UNCHANGED pipeVars
    /\ UNCHANGED selVars
    /\ UNCHANGED cfgVars
    /\ UNCHANGED logVars

(* json.dump / write: one more chunk of the text reaches the file; after the
   last one the file is closed. *)
CWrite ==
    /\ cpc = "write"
    /\ disk' = WriteChunk(disk, OpenedPath(routine), cnew)
    /\ cpc' = IF disk[OpenedPath(routine)].written + 1 < Chunks THEN "write"
              ELSE IF routine \in ReplaceRoutines THEN "replace"
              ELSE "done"
    /\ UNCHANGED <<routine, cnew, cprior, observed>>
    /\ UNCHANGED pipeVars
    /\ UNCHANGED selVars
    /\ UNCHANGED cfgVars
    /\ UNCHANGED logVars

(* tmp.replace(path) *)
CReplace ==
    /\ cpc = "replace"
    /\ disk' = Rename(disk, OpenedPath(routine), CfpData)
    /\ cpc' = "done"
    /\ UNCHANGED <<routine, cnew, cprior, observed>>
    /\ UNCHANGED pipeVars
    /\ UNCHANGED selVars
    /\ UNCHANGED cfgVars
    /\ UNCHANGED logVars

(* The routine returns. *)
CReturn ==
    /\ cpc = "done"
    /\ cpc' = "idle"
    /\ routine' = "none"
    /\ UNCHANGED <<disk, cnew, cprior, observed>>
    /\ UNCHANGED pipeVars
    /\ UNCHANGED selVars
    /\ UNCHANGED cfgVars
    /\ UNCHANGED logVars

(* The process dies before the routine's next file operation. *)
CCrash ==
    /\ cpc \in {"open", "write", "replace"}
    /\ cpc' = "crashed"
    /\ UNCHANGED <<disk, routine, cnew, cprior, observed>>
    /\ UNCHANGED pipeVars
    /\ UNCHANGED selVars
    /\ UNCHANGED cfgVars
    /\ UNCHANGED logVars

(* Another process reads the canonical path while the routine runs. *)
CRead ==
    /\ cpc \notin {"idle", "crashed"}
    /\ observed' = [seen |-> TRUE, file |-> disk[CfpData]]
    /\ UNCHANGED <<disk, cpc, routine, cnew, cprior>>
    /\ UNCHANGED pipeVars
    /\ UNCHANGED selVars
    /\ UNCHANGED cfgVars
    /\ UNCHANGED logVars

InitCommitOnly ==
    /\ script = "none"
    /\ config = <<>>
    /\ InitSelect
    /\ InitLog
    /\ InitPipe
    /\ InitDisk
    /\ disk0 = disk
    /\ InitCommit

NextCommit ==
    \/ CBegin
    \/ COpen
    \/ CWrite
    \/ CReplace
    \/ CReturn
    \/ CCrash
    \/ CRead

SpecCommit == InitCommitOnly /\ [][NextCommit]_vars

(***************************************************************************)
(* Source selection: scripts/cfp_sources.py, scripts/cfp_source_config.py  *)
(* and the sort of ingestion/ingest_runner.py.  Both scripts read          *)
(* data/cfp_sources.json: list_sources its top-level "sources", and        *)
(* get_sources the "sources" of the block named by the section.  The file  *)
(* is [present, sources]; it holds the same list in both places, under the *)
(* section "cfp_rankings".  A source is [id, enabled, has_priority,        *)
(* priority, kind, has_season, season]; its id is its place in the file.   *)
(***************************************************************************)
ListDefaultPriority == 0
GetDefaultPriority == 999

SelPriorities == {[has_priority |-> FALSE, priority |-> 0],
                  [has_priority |-> TRUE, priority |-> 0],
                  [has_priority |-> TRUE, priority |-> 1]}

SelScopes == {[kind |-> "k1", has_season |-> FALSE, season |-> 0],
              [kind |-> "k1", has_season |-> TRUE, season |-> 2024],
              [kind |-> "k2", has_season |-> TRUE, season |-> 2025]}

SelSource(i, e, p, sc) ==
    [id |-> i, enabled |-> e, has_priority |-> p.has_priority, priority |-> p.priority,
     kind |-> sc.kind, has_season |-> sc.has_season, season |-> sc.season]

SelEntries == [enabled : BOOLEAN, p : SelPriorities, sc : SelScopes]

(* The file that declares these entries, in this order. *)
Declared(l) ==
    [present |-> TRUE,
     sources |-> [i \in 1..Len(l) |-> SelSource(i, l[i].enabled, l[i].p, l[i].sc)]]

MissingConfig == [present |-> FALSE, sources |-> <<>>]

(* Python truthiness of the arguments: None, "" and 0 are false. *)
KindGiven(kind) == kind # ""
SeasonGiven(has_season, season) == has_season /\ season # 0

(* list_sources, lines 29-36: the loop's three tests. *)
ListKeeps(src, kind, has_season, season) ==
    /\ src.enabled
    /\ ~(KindGiven(kind) /\ src.kind # kind)
    /\ ~(SeasonGiven(has_season, season) /\ src.has_season /\ src.season # season)

ListFiltered(srcs, kind, has_season, season) ==
    LET Keep(src) == ListKeeps(src, kind, has_season, season) IN SelectSeq(srcs, Keep)

(* list_sources, line 39: sort(key=priority or 0, reverse=True).  A reversed
   sort keeps equal keys in their original order: it is the stable ascending
   sort on the negated key. *)
ListSorted(filtered) ==
    SortedByKey([i \in 1..Len(filtered) |->
        [k |-> 0 - (IF filtered[i].has_priority THEN filtered[i].priority
                    ELSE ListDefaultPriority),
         v |-> filtered[i]]])

list_sources_mut(cfg, kind, has_season, season) ==
    IF ~cfg.present \/ ListFiltered(cfg.sources, kind, has_season, season) = <<>>
    THEN Raised
    ELSE Returned(ListSorted(ListFiltered(cfg.sources, kind, has_season, season)))

(* list_sources, lines 24-40; _load_raw_config raises SourceConfigError when
   the file is missing. *)
list_sources(cfg, kind, has_season, season) ==
    IF ~cfg.present THEN Raised
    ELSE Returned(ListSorted(ListFiltered(cfg.sources, kind, has_season, season)))

(* pick_best_source, lines 43-47: the caller that turns "no sources" into an
   error. *)
pick_best_source(cfg, kind, season) ==
    LET r == list_sources(cfg, kind, TRUE, season)
    IN  IF r.raised \/ r.value = <<>> THEN Raised ELSE Returned(r.value[1])

(* get_sources, lines 36-44; _load_config raises when the file is missing. *)
get_sources(cfg, section) ==
    IF ~cfg.present THEN Raised
    ELSE LET block == IF section = "cfp_rankings" THEN cfg.sources ELSE <<>>
             sources == SelectSeq(block, SourceEnabled)
         IN  Returned(SortedByKey([i \in 1..Len(sources) |->
                 [k |-> IF sources[i].has_priority THEN sources[i].priority
                        ELSE GetDefaultPriority,
                  v |-> sources[i]]]))

SelCall(fn, kind, has_season, season, result) ==
    /\ script = "select"
    /\ request = NoRequest
    /\ request' = [fn |-> fn, kind |-> kind, has_season |-> has_season, season |-> season]
    /\ selected' = result
    /\ UNCHANGED pipeVars
    /\ UNCHANGED cfgVars
    /\ UNCHANGED disk
    /\ UNCHANGED commitVars
    /\ UNCHANGED logVars

SelListSources ==
    \E kind \in {"", "k1"}, has_season \in BOOLEAN, season \in {0, 2025} :
        /\ (~has_season => season = 0)
        /\ SelCall("list_sources", kind, has_season, season,
                   list_sources(config, kind, has_season, season))

SelPickBest ==
    \E kind \in {"k1", "k2"} :
        SelCall("pick_best_source", kind, TRUE, 2025, pick_best_source(config, kind, 2025))

SelGetSources ==
    \E section \in {"cfp_rankings", "ap_poll"} :
        SelCall("get_sources", section, FALSE, 0, get_sources(config, section))

(* run_for_sport on a sport with these sources: the attempt order. *)
SelRunForSport ==
    /\ config.present
    /\ config.sources # <<>>
    /\ SelCall("run_for_sport", "", FALSE, 0, Returned(SortSources(config.sources)))

InitSelectOnly ==
    /\ script = "select"
    /\ \/ config = MissingConfig
       \/ \E n \in 0..MaxSrc : \E l \in [1..n -> SelEntries] : config = Declared(l)
    /\ InitSelect
    /\ InitLog
    /\ InitPipe
    /\ disk = [p \in Paths |-> AbsentFile]
    /\ disk0 = disk
    /\ InitCommit

NextSelect ==
    \/ SelListSources
    \/ SelPickBest
    \/ SelGetSources
    \/ SelRunForSport

SpecSelect == InitSelectOnly /\ [][NextSelect]_vars

(***************************************************************************)
(* scripts/cfp_source_config.py and scripts/cfp_sources.py as a registry:  *)
(* config is the loaded configuration (_CONFIG_CACHE), and a call leaves   *)
(* in it whatever the code of the call leaves in the objects it was        *)
(* handed.                                                                 *)
(***************************************************************************)
MaxReg == 2

(* A header value: its text with at most one {ENV_VAR} placeholder, and
   what has been put in the placeholder's place. *)
HeaderValue(text, placeholder) == [text |-> text, placeholder |-> placeholder, filled |-> ""]

NoHeaders == [k \in {} |-> HeaderValue("", "")]
AuthHeaders == [k \in {"Authorization", "Accept"} |->
                   IF k = "Authorization" THEN HeaderValue("Bearer ", "CFBD_API_KEY")
                   ELSE HeaderValue("application/json", "")]

RegEntries == [enabled : BOOLEAN, p : SelPriorities, headers : {NoHeaders, AuthHeaders}]

RegSource(i, e) ==
    [id |-> i, enabled |-> e.enabled, has_priority |-> e.p.has_priority,
     priority |-> e.p.priority, kind |-> "k1", has_season |-> FALSE, season |-> 0,
     url_template |-> "rankings?year={year}", headers |-> e.headers]

RegDeclared(l) ==
    [present |-> TRUE, sources |-> [i \in 1..Len(l) |-> RegSource(i, l[i])]]

(* os.getenv(env_name, ""). *)
GetEnv(env_name) == IF env_name = "CFBD_API_KEY" THEN "key-1" ELSE ""

(* _apply_env_in_headers, lines 50-57: v with its placeholder replaced. *)
EnvReplaced(v) ==
    IF v.placeholder = "" THEN v
    ELSE [text |-> v.text, placeholder |-> "", filled |-> GetEnv(v.placeholder)]

_apply_env_in_headers_mut(headers) ==
    [out     |-> [k \in DOMAIN headers |-> EnvReplaced(headers[k])],
     headers |-> [k \in DOMAIN headers |-> EnvReplaced(headers[k])]]

(* _apply_env_in_headers, lines 47-59: the dict it returns and the dict it
   was handed, as the call leaves it: the loop rebinds v and stores into
   out only. *)
_apply_env_in_headers(headers) ==
    [out     |-> [k \in DOMAIN headers |-> EnvReplaced(headers[k])],
     headers |-> headers]

(* build_source_url, lines 62-65: url_template.format with the params. *)
build_source_url(source, year) == [template |-> source.url_template, year |-> year]

(* get_primary_source, lines 68-71: None is the empty sequence, a source the
   sequence of that source. *)
get_primary_source(cfg, section) ==
    LET r == get_sources(cfg, section)
    IN  IF r.raised THEN Raised
        ELSE IF r.value = <<>> THEN Returned(<<>>) ELSE Returned(<<r.value[1]>>)

(* get_primary_source_url, lines 74-84. *)
get_primary_source_url(cfg, section, year) ==
    LET r == get_primary_source(cfg, section)
    IN  IF r.raised THEN Raised
        ELSE IF r.value = <<>> THEN Returned(<<>>)
        ELSE Returned(<<build_source_url(r.value[1], year)>>)

(* get_primary_source_with_headers, lines 87-98: its result, and the
   configuration after the call: src is the object inside the cache, and
   its headers dict is the one handed to _apply_env_in_headers. *)
get_primary_source_with_headers(cfg, section, year) ==
    LET r == get_primary_source(cfg, section)
    IN  IF r.raised THEN [result |-> Raised, cfg |-> cfg]
        ELSE IF r.value = <<>> THEN [result |-> Returned(<<>>), cfg |-> cfg]
        ELSE LET src == r.value[1]
                 h == _apply_env_in_headers(src.headers)
             IN  [result |-> Returned(<<[url |-> build_source_url(src, year),
                                         headers |-> h.out]>>),
                  cfg |-> [cfg EXCEPT !.sources =
                              [i \in 1..Len(cfg.sources) |->
                                  IF cfg.sources[i].id = src.id
                                  THEN [cfg.sources[i] EXCEPT !.headers = h.headers]
                                  ELSE cfg.sources[i]]]]

RegSections == {"cfp_rankings", "ap_poll"}
RegYears == {2024, 2025}

RegCall(fn, section, year, result, cfg) ==
    /\ script = "registry"
    /\ request' = [fn |-> fn, kind |-> section, has_season |-> year # 0, season |-> year]
    /\ selected' = result
    /\ config' = cfg
    /\ UNCHANGED cfgVars
    /\ UNCHANGED <<script, pc, runs, exitCode, unhandled, web, now, queue, di,
                   ok_all, candidates, si, data, did_error, working, attempts,
                   outcome, disk0>>
    /\ UNCHANGED disk
    /\ UNCHANGED commitVars
    /\ UNCHANGED logVars

RegGetSources ==
    \E section \in RegSections :
        RegCall("get_sources", section, 0, get_sources(config, section), config)

RegGetPrimarySource ==
    \E section \in RegSections :
        RegCall("get_primary_source", section, 0, get_primary_source(config, section), config)

RegGetPrimarySourceUrl ==
    \E section \in RegSections, year \in RegYears :
        RegCall("get_primary_source_url", section, year,
                get_primary_source_url(config, section, year), config)

RegGetPrimarySourceWithHeaders ==
    \E section \in RegSections, year \in RegYears :
        LET r == get_primary_source_with_headers(config, section, year)
        IN  RegCall("get_primary_source_with_headers", section, year, r.result, r.cfg)

RegListSources ==
    \E kind \in {"", "k1"} :
        RegCall("list_sources", kind, 0, list_sources(config, kind, FALSE, 0), config)

InitRegistry ==
    /\ script = "registry"
    /\ \/ config = MissingConfig
       \/ \E n \in 0..MaxReg : \E l \in [1..n -> RegEntries] : config = RegDeclared(l)
    /\ InitSelect
    /\ InitLog
    /\ InitPipe
    /\ disk = [p \in Paths |-> AbsentFile]
    /\ disk0 = disk
    /\ InitCommit

NextRegistry ==
    \/ RegGetSources
    \/ RegGetPrimarySource
    \/ RegGetPrimarySourceUrl
    \/ RegGetPrimarySourceWithHeaders
    \/ RegListSources

SpecRegistry == InitRegistry /\ [][NextRegistry]_vars

(***************************************************************************)
(* Vocabulary of the properties.                                           *)
(***************************************************************************)
HasField(f, k) == Complete(f) /\ Has(f.doc, k)

SameField(f, g, k) ==
    /\ HasField(f, k) <=> HasField(g, k)
    /\ HasField(f, k) => f.doc.val[k] = g.doc.val[k]

FieldIs(f, k, v) == HasField(f, k) /\ f.doc.val[k] = v

USingleIds == {"rankings", "conferences"}
UIds == {"rankings", "conferences", "polls"}
RIds == {"ncaaf", "nba"}

UDataset(d) == UDatasets[CHOOSE i \in 1..Len(UDatasets) : UDatasets[i].id = d]
RSport(d) ==
    LET sports == IF script = "ingest_runner" THEN config ELSE RSports
    IN  sports[CHOOSE i \in 1..Len(sports) : sports[i].key = d]

AttemptsOf(d) ==
    LET OfDs(a) == a.ds = d IN SelectSeq(attempts, OfDs)

(* The order source selection produces for dataset d. *)
SelectionOrder(d) ==
    IF d \in UIds THEN sources_to_try(UDataset(d))
    ELSE IF d \in RIds
    THEN LET srt == SortSources(RSport(d).sources) IN [i \in 1..Len(srt) |-> srt[i].id]
    ELSE <<CFP_RANKINGS_URL>>

(* What an attempt on this page gives: the handler's result. *)
AttemptResult(d, page) ==
    IF d \in USingleIds THEN Handle(UDataset(d).kind, page)
    ELSE IF d = "polls" THEN handle_ncaaf_polls_html(<<"ap_top25">>, [u \in {"ap_top25"} |-> page])
    ELSE IF d \in RIds THEN fetch_from_source("cfp_collegefootballplayoff", "url", page, 0)
    ELSE IF FetchOk(page) /\ _parse_cfp_rankings(page) # <<>>
         THEN Returned(_parse_cfp_rankings(page)) ELSE Raised

AttemptFails(d, page) == AttemptResult(d, page).raised

DsEnded(d) == outcome[d].state \in {"SUCCEEDED", "EXHAUSTED"}

AllFailed(d) ==
    /\ DsEnded(d)
    /\ \A i \in 1..Len(AttemptsOf(d)) : AttemptFails(d, AttemptsOf(d)[i].page)

SomeSucceeded(d) ==
    /\ DsEnded(d)
    /\ \E i \in 1..Len(AttemptsOf(d)) : ~AttemptFails(d, AttemptsOf(d)[i].page)

PathOf(d) == IF d \in RIds THEN RSport(d).output_file ELSE CfpData

(* The list a dataset writes into its field. *)
FieldOf(d) == IF d \in UIds THEN UDataset(d).field ELSE "rankings"

LastAttempt(d) == AttemptsOf(d)[Len(AttemptsOf(d))]

(* The value the winning attempt of d produced for d's field. *)
NewValue(d) ==
    LET r == AttemptResult(d, LastAttempt(d).page)
    IN  IF d \in RIds THEN r.value.val.rankings ELSE r.value

(* d's target is as it was when the run started: its field for a script that
   merges into the document, the whole file for ingest_runner. *)
TargetUnchanged(d) ==
    IF d \in RIds THEN disk[PathOf(d)] = disk0[PathOf(d)]
    ELSE SameField(disk[PathOf(d)], disk0[PathOf(d)], FieldOf(d))

RunOver == pc = "idle" /\ runs >= 1

(***************************************************************************)
(* C1: in every dataset run the sources are attempted strictly in the      *)
(* order source selection produced, every attempt before the last one      *)
(* failed, the winner is the first source of that order whose attempt      *)
(* succeeds, and no source after the winner is fetched; with A (priority   *)
(* 1) failing and B (priority 2) succeeding the winner is B and C          *)
(* (priority 3) is never fetched.                                          *)
(***************************************************************************)
C1_FirstSuccessWins ==
    /\ \A d \in USingleIds \cup RIds :
         LET att == AttemptsOf(d)
             order == SelectionOrder(d)
         IN  /\ Len(att) <= Len(order)
             /\ \A i \in 1..Len(att) : att[i].src = order[i]
             /\ \A i \in 1..(Len(att) - 1) : AttemptFails(d, att[i].page)
             /\ outcome[d].state = "SUCCEEDED" =>
                    /\ att # <<>>
                    /\ ~AttemptFails(d, LastAttempt(d).page)
                    /\ outcome[d].winner = LastAttempt(d).src
             /\ outcome[d].state = "EXHAUSTED" =>
                    /\ Len(att) = Len(order)
                    /\ \A i \in 1..Len(att) : AttemptFails(d, att[i].page)
    /\ (/\ script = "ingest_runner"
        /\ DsEnded("ncaaf")
        /\ {"A", "B"} \subseteq DOMAIN web
        /\ AttemptFails("ncaaf", web["A"])
        /\ ~AttemptFails("ncaaf", web["B"]))
       => /\ outcome["ncaaf"].winner = "B"
          /\ "C" \notin DOMAIN web
          /\ FieldIs(disk[CfpData], "sources",
                     <<[id |-> "1", label |-> "College Football Playoff", url |-> "B"]>>)

C1_Witness ==
    /\ script = "ingest_runner"
    /\ outcome["ncaaf"].state = "SUCCEEDED"
    /\ outcome["ncaaf"].winner = "B"
    /\ Len(AttemptsOf("ncaaf")) = 2
    /\ "A" \in DOMAIN web
    /\ AttemptFails("ncaaf", web["A"])

(***************************************************************************)
(* C2: when every source of a dataset failed in a run, the dataset's       *)
(* output field in the persisted document has the value it had when the    *)
(* run started (run_dataset, run_for_sport, update_cfp_data.main).         *)
(***************************************************************************)
C2_ExhaustedKeepsField ==
    \A d \in DsIds : AllFailed(d) => TargetUnchanged(d)

C2_Witness ==
    /\ script = "universal_ingest"
    /\ RunOver
    /\ AllFailed("rankings")
    /\ Len(AttemptsOf("rankings")) = 2
    /\ outcome["conferences"].state = "SUCCEEDED"
    /\ FieldIs(disk[CfpData], "rankings", <<OldRanking>>)

(***************************************************************************)
(* C3: a dataset run whose handler returns an empty list leaves the        *)
(* previous value of the dataset's field in the persisted document.        *)
(***************************************************************************)
C3_EmptyResultKeepsField ==
    \A d \in USingleIds \cup RIds :
        (/\ DsEnded(d)
         /\ AttemptsOf(d) # <<>>
         /\ ~AttemptFails(d, LastAttempt(d).page)
         /\ NewValue(d) = <<>>
         /\ HasField(disk0[PathOf(d)], FieldOf(d)))
        => SameField(disk[PathOf(d)], disk0[PathOf(d)], FieldOf(d))

(***************************************************************************)
(* C4: a source that answers 200 with content in which the expected        *)
(* structure is not found counts as a failed attempt, and the next source  *)
(* in order is then attempted.                                             *)
(***************************************************************************)
Unrecognizable(page) == FetchOk(page) /\ page.table = "none"

C4_UnrecognizableFallsBack ==
    \A d \in {"rankings"} \cup RIds :
        DsEnded(d) =>
            \A i \in 1..Len(AttemptsOf(d)) :
                (Unrecognizable(AttemptsOf(d)[i].page) /\ i < Len(SelectionOrder(d)))
                => Len(AttemptsOf(d)) > i

(***************************************************************************)
(* C5: a second run against byte-identical source payloads leaves the      *)
(* output documents byte-identical to what the first run left, including   *)
(* last_updated.                                                           *)
(***************************************************************************)
C5_SecondRunIdentical ==
    (RunOver /\ runs >= 2) => disk = disk0

(***************************************************************************)
(* C6: if the process dies at any point during a commit, the canonical     *)
(* path still holds the complete prior document, whichever save routine    *)
(* was running.                                                            *)
(***************************************************************************)
C6_CrashKeepsPrior ==
    (cpc = "crashed" /\ Complete(cprior)) => disk[CfpData] = cprior

(***************************************************************************)
(* C7: a reader of the canonical path during a commit sees the complete    *)
(* prior document or the complete new one, never an empty or partly        *)
(* written file.                                                           *)
(***************************************************************************)
C7_ReaderSeesWholeDocument ==
    (observed.seen /\ Complete(cprior)) => observed.file \in {cprior, FullFile(cnew)}

(***************************************************************************)
(* C8: when a run of main() is over, every configured dataset has been     *)
(* processed, whatever happened to the others, and each dataset's target   *)
(* holds what its own outcome dictates: the prior value when all its       *)
(* sources failed or its handler raised, the winning attempt's value       *)
(* otherwise.                                                              *)
(***************************************************************************)
ConfiguredIds == IF script = "universal_ingest" THEN UIds
                 ELSE IF script = "ingest_runner" THEN RIds ELSE {}

C8_DatasetsIndependent ==
    RunOver =>
        \A y \in ConfiguredIds :
            /\ outcome[y].state # "none"
            /\ AllFailed(y) => TargetUnchanged(y)
            /\ SomeSucceeded(y) => FieldIs(disk[PathOf(y)], FieldOf(y), NewValue(y))

C8_Witness ==
    /\ script = "universal_ingest"
    /\ RunOver
    /\ outcome["rankings"].state = "EXHAUSTED"
    /\ outcome["polls"].state = "EXHAUSTED"
    /\ outcome["conferences"].state = "SUCCEEDED"
    /\ FieldIs(disk[CfpData], "conferences",
               <<[id |-> "big12", name |-> "big12", teams |-> <<"Texas">>]>>)
    /\ FieldIs(disk[CfpData], "rankings", <<OldRanking>>)

(***************************************************************************)
(* C9: on a successful dataset run the dataset's field is exactly the new  *)
(* list, and the sections of the prior document that the run did not       *)
(* refresh (polls, conferences, games, extra keys) keep their value.       *)
(***************************************************************************)
Refreshed == {FieldOf(d) : d \in {x \in DsIds : SomeSucceeded(x)}}

C9_SuccessKeepsOtherSections ==
    \A d \in USingleIds \cup RIds \cup {"cfp_rankings"} :
        (RunOver /\ SomeSucceeded(d) /\ Complete(disk0[PathOf(d)]))
        => /\ FieldIs(disk[PathOf(d)], FieldOf(d), NewValue(d))
           /\ \A k \in {"polls", "conferences", "games", "note"} \ Refreshed :
                  SameField(disk[PathOf(d)], disk0[PathOf(d)], k)

(***************************************************************************)
(* C10: no exception raised by a fetch while a source is tried leaves the  *)
(* orchestrating function: a run never ends with an unhandled fetch        *)
(* exception (run_dataset, run_for_sport, update_polls, update_standings). *)
(***************************************************************************)
C10_NoFetchExceptionEscapes == unhandled # "HTTPError"

(***************************************************************************)
(* Vocabulary about the configuration.                                     *)
(***************************************************************************)
ConfigIds ==
    IF script = "universal_ingest" THEN {config[i].id : i \in 1..Len(config)}
    ELSE IF script = "ingest_runner" THEN {config[i].key : i \in 1..Len(config)}
    ELSE {}

(* An enabled dataset whose kind is unknown or that has no source. *)
UInvalid(ds) == ds.enabled /\ (ds.kind \notin HandlerKinds \/ sources_to_try(ds) = <<>>)
RInvalid(sp) == sp.enabled /\ (sp.output_file = "" \/ sp.sources = <<>>)

HasInvalidDataset ==
    \/ script = "universal_ingest" /\ \E i \in 1..Len(config) : UInvalid(config[i])
    \/ script = "ingest_runner" /\ \E i \in 1..Len(config) : RInvalid(config[i])

HasUnknownType ==
    /\ script = "ingest_runner"
    /\ \E i \in 1..Len(config) :
         \E j \in 1..Len(config[i].sources) : config[i].sources[j].type \notin SourceTypes

(***************************************************************************)
(* C11: a run in which every dataset ended SUCCEEDED or EXHAUSTED exits    *)
(* with code 0.                                                            *)
(***************************************************************************)
C11_ExhaustedExitsZero ==
    (/\ RunOver
     /\ script \in {"universal_ingest", "ingest_runner"}
     /\ \A d \in ConfigIds : outcome[d].state \in {"SUCCEEDED", "EXHAUSTED"})
    => exitCode = 0

(***************************************************************************)
(* C12: a run whose configuration has an enabled dataset with an unknown   *)
(* kind or without sources exits with a non-zero code.                     *)
(***************************************************************************)
C12_ConfigErrorExitsNonZero ==
    (RunOver /\ HasInvalidDataset) => exitCode # 0

C12_Witness ==
    /\ script = "universal_ingest"
    /\ RunOver
    /\ HasInvalidDataset
    /\ \A d \in UIds : outcome[d].state = "SUCCEEDED"
    /\ outcome["games"].state = "CONFIG_ERROR"
    /\ exitCode = 1

(***************************************************************************)
(* C13: when the configuration is invalid (unknown kind, unknown source    *)
(* type, no sources) no run performs a fetch or modifies an output file,   *)
(* for any dataset.                                                        *)
(***************************************************************************)
C13_ConfigErrorHaltsBeforeSideEffect ==
    (HasInvalidDataset \/ HasUnknownType) => (attempts = <<>> /\ disk = disk0)

(***************************************************************************)
(* The sources list of a document.                                         *)
(***************************************************************************)
SourceIds(doc) ==
    LET srcs == Get(doc, "sources", <<>>) IN [i \in 1..Len(srcs) |-> srcs[i].id]

Distinct(seq) == \A i, j \in 1..Len(seq) : i # j => seq[i] # seq[j]

DataPaths == {CfpData, NbaData}

(***************************************************************************)
(* C14: in the document on disk after any sequence of runs, starting from  *)
(* an absent document or one whose sources ids are unique, no two entries  *)
(* of the sources list have the same id.                                   *)
(***************************************************************************)
C14_SourceIdsUnique ==
    \A p \in DataPaths : Complete(disk[p]) => Distinct(SourceIds(disk[p].doc))

(* A second run of update_cfp_data has rewritten a document that already
   held the entry with id "1". *)
C14_Witness ==
    /\ script = "update_cfp_data"
    /\ runs = 2
    /\ Complete(disk0[CfpData])
    /\ "1" \in Range(SourceIds(disk0[CfpData].doc))
    /\ disk # disk0
    /\ Complete(disk[CfpData])
    /\ "9" \in Range(SourceIds(disk[CfpData].doc))

(***************************************************************************)
(* C15: after a successful dataset run of universal_ingest the sources     *)
(* list of the document holds an entry whose id is the winning source's    *)
(* id.                                                                     *)
(***************************************************************************)
C15_WinnerUpserted ==
    \A d \in USingleIds :
        (/\ script = "universal_ingest"
         /\ RunOver
         /\ outcome[d].state = "SUCCEEDED"
         /\ SomeSucceeded(d)
         /\ Complete(disk[PathOf(d)]))
        => outcome[d].winner \in Range(SourceIds(disk[PathOf(d)].doc))

(***************************************************************************)
(* C16: in every rankings list persisted by a successful run the seeds are *)
(* pairwise distinct and strictly ascending, whatever the order of the     *)
(* source rows.                                                            *)
(***************************************************************************)
StrictlyAscending(seq) == \A i \in 1..(Len(seq) - 1) : seq[i] < seq[i + 1]

Seeds(list) == [i \in 1..Len(list) |-> list[i].seed]

C16_SeedsStrictlyAscending ==
    \A d \in {"rankings", "cfp_rankings", "ncaaf"} :
        (/\ RunOver
         /\ outcome[d].state = "SUCCEEDED"
         /\ SomeSucceeded(d)
         /\ Complete(disk[PathOf(d)])
         /\ Get(disk[PathOf(d)].doc, "rankings", <<>>) = NewValue(d))
        => StrictlyAscending(Seeds(Get(disk[PathOf(d)].doc, "rankings", <<>>)))

(***************************************************************************)
(* Vocabulary of source selection: the sources that qualify for the call   *)
(* last made, and the priority a source is compared by.                    *)
(***************************************************************************)
Sorters == {"list_sources", "get_sources", "run_for_sport"}

Qualifies(src) ==
    IF request.fn = "list_sources"
    THEN ListKeeps(src, request.kind, request.has_season, request.season)
    ELSE IF request.fn = "get_sources"
    THEN request.kind = "cfp_rankings" /\ src.enabled
    ELSE src.enabled

Qualifying == {src \in Range(config.sources) : Qualifies(src)}

PriorityOr(src, default) == IF src.has_priority THEN src.priority ELSE default

(* a comes strictly before b in the order of the call last made. *)
Outranks(a, b) ==
    IF request.fn = "list_sources"
    THEN PriorityOr(a, ListDefaultPriority) > PriorityOr(b, ListDefaultPriority)
    ELSE IF request.fn = "get_sources"
    THEN PriorityOr(a, GetDefaultPriority) < PriorityOr(b, GetDefaultPriority)
    ELSE PriorityOr(a, DefaultPriority) < PriorityOr(b, DefaultPriority)

(***************************************************************************)
(* C17: source selection returns the qualifying sources, each once, sorted *)
(* by priority, and sources of equal priority (the default priority        *)
(* included) stay in their declaration order; the result is therefore the  *)
(* one sequence the configuration determines.                              *)
(***************************************************************************)
C17_SortedStableByPriority ==
    (request.fn \in Sorters /\ ~selected.raised) =>
        LET out == selected.value IN
        /\ Range(out) = Qualifying
        /\ \A i, j \in 1..Len(out) :
              i < j => \/ Outranks(out[i], out[j])
                       \/ (~Outranks(out[j], out[i]) /\ out[i].id < out[j].id)

(* list_sources returned three sources: it moved the first declared one
   back, and kept two of equal priority, one of them without a priority
   field, in declaration order. *)
C17_Witness ==
    /\ request.fn = "list_sources"
    /\ ~selected.raised
    /\ Len(selected.value) = 3
    /\ selected.value[1].id # 1
    /\ \E i, j \in 1..3 :
          /\ i < j
          /\ ~selected.value[i].has_priority
          /\ selected.value[j].has_priority
          /\ ~Outranks(selected.value[i], selected.value[j])

(***************************************************************************)
(* C18: for every requested season value, list_sources returns exactly the *)
(* sources that are not disabled, whose kind is the requested kind when    *)
(* one is given, and whose season is unset or equal to the requested       *)
(* season.                                                                 *)
(***************************************************************************)
C18_ListSourcesFilterExact ==
    (request.fn = "list_sources" /\ request.has_season /\ ~selected.raised) =>
        Range(selected.value) =
            {src \in Range(config.sources) :
                /\ src.enabled
                /\ (request.kind # "" => src.kind = request.kind)
                /\ (~src.has_season \/ src.season = request.season)}

(***************************************************************************)
(* C19: when the configuration is there and no source qualifies,           *)
(* list_sources and get_sources return the empty sequence and do not       *)
(* raise; it is the caller, pick_best_source, that makes it an error.      *)
(***************************************************************************)
C19_NoSourceReturnsEmpty ==
    /\ (/\ request.fn \in {"list_sources", "get_sources"}
        /\ config.present
        /\ Qualifying = {})
       => (~selected.raised /\ selected.value = <<>>)
    /\ (/\ request.fn = "pick_best_source"
        /\ \A src \in Range(config.sources) :
              ~ListKeeps(src, request.kind, request.has_season, request.season))
       => selected.raised

(* list_sources was asked for a kind that only disabled or out-of-season
   sources have. *)
C19_Witness ==
    /\ request.fn = "list_sources"
    /\ request.kind = "k1"
    /\ config.present
    /\ \E i \in 1..Len(config.sources) : config.sources[i].kind = "k1"
    /\ Qualifying = {}
    /\ ~selected.raised
    /\ selected.value = <<>>

(***************************************************************************)
(* C20: for the same list of sources, list_sources (no kind, no season),   *)
(* get_sources and run_for_sport produce the same attempt order.           *)
(***************************************************************************)
C20_OnePriorityConvention ==
    (request.fn = "run_for_sport" /\ ~selected.raised) =>
        /\ selected.value = get_sources(config, "cfp_rankings").value
        /\ selected.value = list_sources(config, "", FALSE, 0).value

(***************************************************************************)
(* Vocabulary of parsing: whether the page of an attempt holds the         *)
(* structure the dataset's parser looks for, and whether that structure    *)
(* holds a row the parser accepts.                                         *)
(***************************************************************************)
StructureFound(ds, page) ==
    IF ds = "sports_cfp" THEN SportsSuitable(page)
    ELSE IF ds = "rankings" THEN page.table \in {"rank_team", "rank_school"}
    ELSE IF ds = "phase2" THEN page.table # "none"
    ELSE page.table = "rank_team"

HasRecord(ds, page) ==
    \E i \in 1..Len(page.rows) :
        IF ds = "sports_cfp" THEN i > 1 /\ SportsRowOk(page.rows[i])
        ELSE IF ds = "rankings" THEN UniversalRowOk(page.rows[i])
        ELSE IF ds = "phase2" THEN P2RowOk(page.rows[i])
        ELSE IF ds \in RIds THEN RunnerRowOk(page.rows[i])
        ELSE UpdateRowOk(page.rows[i])

FoundButEmpty(a) ==
    FetchOk(a.page) /\ StructureFound(a.ds, a.page) /\ ~HasRecord(a.ds, a.page)

(***************************************************************************)
(* C21: an attempt whose fetch succeeded and whose page holds the expected *)
(* structure with zero records is the last attempt of its dataset run: no  *)
(* later source is attempted because of the empty result.                  *)
(***************************************************************************)
C21_EmptyResultEndsRun ==
    \A i, j \in 1..Len(attempts) :
        (/\ attempts[i].ds \in {"sports_cfp", "rankings", "ncaaf", "nba"}
         /\ FoundButEmpty(attempts[i])
         /\ i < j)
        => attempts[j].ds # attempts[i].ds

(***************************************************************************)
(* C22: a parser that cannot find the expected structure in the payload    *)
(* raises, it does not return an empty list: a run of cfp_ingest_phase2    *)
(* that fetched a poll page without a rankings table ends with the         *)
(* parser's exception, which nothing in main() catches.                    *)
(***************************************************************************)
P2PollUrls == {P2Config.polls[i].cfg.url : i \in 1..Len(P2Config.polls)}

C22_MissingStructureRaises ==
    (/\ script = "cfp_ingest_phase2"
     /\ \E i \in 1..Len(attempts) :
           /\ attempts[i].src \in P2PollUrls
           /\ FetchOk(attempts[i].page)
           /\ ~StructureFound("phase2", attempts[i].page))
    => pc = "raised"

(***************************************************************************)
(* C24: loading the prior document never fails the run: whatever the file  *)
(* holds, no run ends with the JSON decoder's exception.                   *)
(***************************************************************************)
C24_LoadNeverFails ==
    \A p \in {CfpData, NbaData} :
        (disk0[p].exists /\ ~Complete(disk0[p])) => unhandled # "JSONDecodeError"

(***************************************************************************)
(* C23: commit writes the output file if and only if the canonical         *)
(* serialisation of the new document differs from what the file holds; a   *)
(* file that cannot be parsed counts as no prior content: it is            *)
(* overwritten and the run ends without an error.  Stated for the run of   *)
(* cfp_ingest that built a payload and for the run of cfp_fetch that       *)
(* received an object.                                                     *)
(***************************************************************************)
IngestCommitted == script = "cfp_ingest" /\ working # EmptyDict

FetchCommitted ==
    /\ script = "cfp_fetch"
    /\ attempts # <<>>
    /\ pc = "idle"
    /\ FetchOk(attempts[1].page)
    /\ attempts[1].page.json = "object"

WroteIffDiffers(path, doc) ==
    /\ path \in Range(written) <=> ~SameText(disk0[path], doc)
    /\ ~Complete(disk0[path]) => SameText(disk[path], doc)

C23_WriteIffChanged ==
    /\ IngestCommitted =>
          /\ WroteIffDiffers(CfpData, working)
          /\ exitCode = 0 /\ unhandled = "none"
    /\ FetchCommitted =>
          /\ \A i \in 1..Len(FetchMapping) :
                LET m == FetchMapping[i]
                    e == attempts[1].page.entries
                IN  IF \E j \in 1..Len(e) : e[j].key = m.key
                    THEN \A j \in 1..Len(e) :
                            e[j].key = m.key => WroteIffDiffers(m.path, e[j].doc)
                    ELSE m.path \notin Range(written)
          /\ exitCode = 0 /\ unhandled = "none"

(* The second run of cfp_ingest found its own output and wrote nothing. *)
C23_Witness ==
    /\ IngestCommitted
    /\ written = <<>>
    /\ Complete(disk0[CfpData])

(***************************************************************************)
(* C25: no value taken from a secret environment variable appears in a     *)
(* file the pipeline writes: the files a run wrote are the files the same  *)
(* run would have written, on the same responses, under any other value    *)
(* of the secret.  Stated for the meta file of cfp_sync, whose content     *)
(* is SyncMetaDoc of CFP_API_URL and the clock.                            *)
(***************************************************************************)
C25_SecretsNeverWritten ==
    (/\ script = "cfp_sync"
     /\ SyncMeta \in Range(written))
    => \A u \in ApiUrls \ {""} :
          disk[SyncMeta].doc = SyncMetaDoc(u, disk[SyncMeta].doc.val.last_sync_utc)

(***************************************************************************)
(* C28: every entry of a persisted rankings list has a positive seed and   *)
(* a non-empty team: a source row with seed 0, a negative seed or no team  *)
(* never reaches the document.                                             *)
(***************************************************************************)
ValidRanking(r) == r.seed > 0 /\ r.team # ""

C28_RankingsValid ==
    \A p \in {CfpData, SportsData} :
        (Complete(disk[p]) /\ Has(disk[p].doc, "rankings"))
        => \A i \in 1..Len(disk[p].doc.val.rankings) :
              ValidRanking(disk[p].doc.val.rankings[i])

(***************************************************************************)
(* C30: cfp_fetch.main returns exit code 0 on every path, and when         *)
(* CFP_API_URL is unset, the endpoint answers 404 or an error occurs while *)
(* fetching or handling the response, every data file is left untouched.   *)
(***************************************************************************)
FetchHandledObject ==
    /\ attempts # <<>>
    /\ FetchOk(attempts[1].page)
    /\ attempts[1].page.json = "object"

C30_FetchAlwaysExitsZero ==
    script = "cfp_fetch" =>
        /\ exitCode = 0
        /\ unhandled = "none"
        /\ ~FetchHandledObject => disk = disk0

(***************************************************************************)
(* C27: a dataset run that ends EXHAUSTED carries every failure of the     *)
(* run, one per attempted source and in attempt order.  What the code      *)
(* keeps of the failures is last_error, which it reports when the run      *)
(* ends; the failures of the run are the sources of its attempts.          *)
(***************************************************************************)
CarriedFailures == IF last_error = "" THEN <<>> ELSE <<last_error>>

FailedSources(d) == [i \in 1..Len(AttemptsOf(d)) |-> AttemptsOf(d)[i].src]

C27_ExhaustedCarriesAllFailures ==
    \A d \in USingleIds \cup RIds :
        (/\ outcome[d].state = "EXHAUSTED"
         /\ AttemptsOf(d) # <<>>
         /\ last_error = LastAttempt(d).src)
        => CarriedFailures = FailedSources(d)

(***************************************************************************)
(* C26: every dataset run ends SUCCEEDED or EXHAUSTED after attempting     *)
(* each candidate source at most once: the attempts follow the candidate   *)
(* list computed before the first attempt, each failure moves to the next  *)
(* candidate, and the run is EXHAUSTED exactly when no candidate is left   *)
(* and none succeeded.                                                     *)
(***************************************************************************)
Candidates(d) ==
    IF d \in UIds
    THEN sources_to_try(config[CHOOSE i \in 1..Len(config) : config[i].id = d])
    ELSE SelectionOrder(d)

C26_RunEndsAfterEachCandidateOnce ==
    \A d \in ConfiguredIds :
        LET att == AttemptsOf(d)
            order == Candidates(d)
        IN  /\ Len(att) <= Len(order)
            /\ \A i \in 1..Len(att) : att[i].src = order[i]
            /\ \A i \in 1..(Len(att) - 1) : AttemptFails(d, att[i].page)
            /\ DsEnded(d) =>
                 (outcome[d].state = "EXHAUSTED"
                    <=> /\ Len(att) = Len(order)
                        /\ \A i \in 1..Len(att) : AttemptFails(d, att[i].page))

(***************************************************************************)
(* C29: source descriptors are immutable once loaded: no registry          *)
(* operation (get_sources, get_primary_source, build_source_url,           *)
(* get_primary_source_with_headers with its placeholder resolution,        *)
(* list_sources) changes the loaded configuration, so every query answers  *)
(* after the call what it answered before it.                              *)
(***************************************************************************)
C29_RegistryLeavesConfig ==
    [][/\ config' = config
       /\ \A section \in RegSections :
             get_sources(config', section) = get_sources(config, section)
       /\ \A kind \in {"", "k1"} :
             list_sources(config', kind, FALSE, 0) = list_sources(config, kind, FALSE, 0)]_vars

(* get_primary_source_with_headers has resolved a placeholder of the primary
   source, and the configuration still holds the placeholder. *)
C29_Witness ==
    /\ script = "registry"
    /\ request.fn = "get_primary_source_with_headers"
    /\ ~selected.raised
    /\ selected.value # <<>>
    /\ selected.value[1].headers["Authorization"].filled = "key-1"
    /\ \E i \in 1..Len(config.sources) :
          /\ config.sources[i].headers = AuthHeaders
          /\ <<config.sources[i]>> = get_primary_source(config, "cfp_rankings").value

(***************************************************************************)
(* C34: in universal_ingest.run_dataset, for every dataset kind, the       *)
(* backup sources are attempted, in declaration order, after the primary   *)
(* sources failed and before the dataset is declared to have produced no   *)
(* data; the multi-source kind ncaaf_polls_html included.                  *)
(***************************************************************************)
ConfigDataset(d) == config[CHOOSE i \in 1..Len(config) : config[i].id = d]

BackupAttempts(d) ==
    LET IsBackup(a) == a.src \in Range(choose_sources(ConfigDataset(d)).backup)
        att == SelectSeq(AttemptsOf(d), IsBackup)
    IN  [i \in 1..Len(att) |-> att[i].src]

C34_BackupsTriedBeforeNoData ==
    script = "universal_ingest" =>
        \A d \in UIds :
            outcome[d].state = "EXHAUSTED"
            => BackupAttempts(d) = choose_sources(ConfigDataset(d)).backup

(***************************************************************************)
(* C39: a disabled dataset or sport is skipped without any fetch and       *)
(* without any write, and it does not by itself make the run exit with a   *)
(* non-zero code: when every enabled one succeeded the exit code is 0.     *)
(* Both in universal_ingest and in ingest_runner.                          *)
(***************************************************************************)
ConfigEntry(i) ==
    IF script = "universal_ingest"
    THEN [id |-> config[i].id, enabled |-> config[i].enabled, path |-> config[i].path]
    ELSE [id |-> config[i].key, enabled |-> config[i].enabled, path |-> config[i].output_file]

C39_DisabledIsSkipped ==
    (script \in {"universal_ingest", "ingest_runner"} /\ RunOver) =>
        \A i \in 1..Len(config) :
            ~ConfigEntry(i).enabled =>
                /\ AttemptsOf(ConfigEntry(i).id) = <<>>
                /\ (\A j \in 1..Len(config) :
                       ConfigEntry(j).enabled => ConfigEntry(j).path # ConfigEntry(i).path)
                   => disk[ConfigEntry(i).path] = disk0[ConfigEntry(i).path]
                /\ (\A j \in 1..Len(config) :
                       ConfigEntry(j).enabled => outcome[ConfigEntry(j).id].state = "SUCCEEDED")
                   => exitCode = 0

(***************************************************************************)
(* C37: with dry_run enabled, universal_ingest creates, modifies or        *)
(* renames no file for any dataset, whatever the handlers return or raise. *)
(***************************************************************************)
C37_DryRunWritesNothing ==
    (script = "universal_ingest" /\ dry_run) => disk = disk0

(* A dry run is over: the rankings handler returned data, another dataset's
   handler raised, and the disk is as it was. *)
C37_Witness ==
    /\ script = "universal_ingest"
    /\ dry_run
    /\ RunOver
    /\ outcome["rankings"].state = "DRY_RUN"
    /\ outcome["conferences"].state = "EXHAUSTED"
    /\ disk[CfpData].exists

(***************************************************************************)
(* C38: when several datasets of one universal_ingest run write different  *)
(* fields of the same file and all succeed, the final document holds every *)
(* dataset's new value: the load-modify-write of a later dataset neither   *)
(* reverts nor drops the field an earlier one wrote.                       *)
(***************************************************************************)
AllSucceeded ==
    /\ script = "universal_ingest"
    /\ RunOver
    /\ \A i \in 1..Len(config) :
          config[i].enabled => outcome[config[i].id].state = "SUCCEEDED"

C38_EveryFieldSurvives ==
    AllSucceeded =>
        \A i \in 1..Len(config) :
            (config[i].enabled /\ config[i].id \in UIds) =>
                FieldIs(disk[config[i].path], config[i].field, NewValue(config[i].id))

(* Three datasets wrote rankings, polls and conferences into one file, the
   earliest of them with a non-empty list. *)
C38_Witness ==
    /\ AllSucceeded
    /\ Len(queue) >= 3
    /\ \A d \in UIds : outcome[d].state = "SUCCEEDED"
    /\ NewValue(queue[1].id) # <<>>
    /\ FieldIs(disk[CfpData], queue[1].field, NewValue(queue[1].id))

(***************************************************************************)
(* C32: in cfp_scrape.build_cfp_data each of rankings, polls and           *)
(* conferences is the newly parsed value when that value is non-empty and  *)
(* otherwise the value in the existing cfp-data.json, whether the fetch    *)
(* failed or the parse returned nothing; games is always the existing      *)
(* value.  A key the existing file lacks has the value [].                 *)
(***************************************************************************)
ScrapeDone == script = "cfp_scrape" /\ runs >= 1

ScrapeExisting(k) ==
    IF HasField(disk0[CfpData], k) THEN disk0[CfpData].doc.val[k] ELSE <<>>

ScrapeParsed(k) ==
    LET url == IF k = "conferences" THEN STANDINGS_URL ELSE CFP_PRIMARY_URL
    IN  IF ~FetchOk(web[url]) THEN <<>>
        ELSE IF k = "conferences" THEN parse_standings_from_espn(web[url])
        ELSE IF k = "polls" THEN parse_rankings_from_espn(web[url]).polls
        ELSE parse_rankings_from_espn(web[url]).rankings

C32_ScrapeNewOrExisting ==
    ScrapeDone =>
        /\ \A k \in {"rankings", "polls", "conferences"} :
              IF ScrapeParsed(k) # <<>>
              THEN FieldIs(disk[CfpData], k, ScrapeParsed(k))
              ELSE FieldIs(disk[CfpData], k, ScrapeExisting(k))
        /\ FieldIs(disk[CfpData], "games", ScrapeExisting("games"))

(* The rankings page was fetched and gave nothing, the standings fetch
   failed, and the existing rankings and conferences are in the new file. *)
C32_Witness ==
    /\ ScrapeDone
    /\ FetchOk(web[CFP_PRIMARY_URL])
    /\ ScrapeParsed("rankings") = <<>>
    /\ ~FetchOk(web[STANDINGS_URL])
    /\ ScrapeExisting("rankings") # <<>>
    /\ ScrapeExisting("conferences") # <<>>
    /\ FieldIs(disk[CfpData], "rankings", ScrapeExisting("rankings"))

(***************************************************************************)
(* C35: in cfp_ingest_standings_polls a source whose parser returns an     *)
(* empty list changes nothing: update_polls leaves the existing poll       *)
(* entries as they were and update_standings leaves conferences and        *)
(* conf_source_id as they were; in update_standings the first enabled      *)
(* source with a non-empty parse wins, sets conf_source_id to its id, and  *)
(* no later standings source is fetched.  The parsers of the script are    *)
(* stubs that return [], so every fetched source is such a source.         *)
(***************************************************************************)
SPPrior ==
    IF Complete(disk0[CfpData]) /\ disk0[CfpData].doc.keys # <<>>
    THEN disk0[CfpData].doc ELSE FreshStructure

SPStandingAttempts == AttemptsOf("standing_sources")

HasCfpPoll(entry) == \E j \in 1..Len(entry.polls) : entry.polls[j].name \in CfpStyleNames

LaterSeasonWeek(a, b) ==
    \/ a.season > b.season
    \/ a.season = b.season /\ a.week > b.week

(* The index of the entry the claim describes. *)
LatestCfpEntry(weeks) ==
    CHOOSE i \in 1..Len(weeks) :
        /\ HasCfpPoll(weeks[i])
        /\ \A k \in 1..Len(weeks) :
              HasCfpPoll(weeks[k]) =>
                  /\ ~LaterSeasonWeek(weeks[k], weeks[i])
                  /\ k < i => LaterSeasonWeek(weeks[i], weeks[k])

IngestFetched ==
    /\ script = "cfp_ingest"
    /\ attempts # <<>>
    /\ FetchOk(attempts[1].page)
    /\ attempts[1].page.json = "array"

C36_PicksLatestSeasonWeek ==
    IngestFetched =>
        LET weeks == attempts[1].page.entries
            got == pick_latest_cfp_snapshot(weeks)
        IN  /\ got = <<>> <=> ~\E i \in 1..Len(weeks) : HasCfpPoll(weeks[i])
            /\ got # <<>> =>
                  LET e == weeks[LatestCfpEntry(weeks)]
                  IN  /\ got[1].season = e.season
                      /\ got[1].week = e.week
                      /\ got[1].seasonType = e.seasonType
                      /\ got[1].poll \in Range(e.polls)

(***************************************************************************)
(* C31: in fetch_cfp_data.main, when every scrape fails or returns nothing *)
(* and an existing cfp-data.json is present, the written document differs  *)
(* from the existing one only in last_updated: rankings, conferences,      *)
(* games, polls, sources, cfp_source_id, conf_source_id and every extra    *)
(* key keep their existing values.  The scrapers of the script are stubs   *)
(* that return [], so every run is such a run.                             *)
(***************************************************************************)
C31_OnlyTimestampChanges ==
    (/\ script = "fetch_cfp_data"
     /\ runs >= 1
     /\ Complete(disk0[CfpData]))
    => \A k \in Range(disk0[CfpData].doc.keys) \ {"last_updated"} :
          SameField(disk[CfpData], disk0[CfpData], k)

(***************************************************************************)
(* C33: every file cfp_sync.main writes lies inside the repository's data  *)
(* directory, for every filename key the payload's files dict can hold,    *)
(* keys with path separators or ".." components included.                  *)
(***************************************************************************)
InDataDir(path) == path # IndexHtml

C33_WritesStayInDataDir ==
    script = "cfp_sync" =>
        /\ \A i \in 1..Len(written) : InDataDir(written[i])
        /\ \A path \in Paths : ~InDataDir(path) => disk[path] = disk0[path]

====
